---- MODULE Spec2Model ----
(***************************************************************************)
(* MMS-Player: the gloss inflection and timeline composition pipeline.     *)
(*                                                                         *)
(* The model follows execute_pipeline (src/main.py): the MMS table is      *)
(* parsed (src/player/mms_parser.py), the motion files are resolved, every *)
(* gloss is loaded, resampled (src/player/ArmatureUtils.py), captured and  *)
(* baked (src/player/controllers.py), and the baked glosses are merged     *)
(* into the final timeline (src/player/merge.py).                          *)
(*                                                                         *)
(* Times, frame positions and channel values are exact rationals <<n, d>>  *)
(* with d > 0 in lowest terms: the code computes them in binary floating   *)
(* point, whose rounding is not modelled.                                  *)
(***************************************************************************)
EXTENDS Integers, Sequences, FiniteSets, TLC

\* ------------------------------------------------------------------ bounds
\* Largest number of rows of an MMS table drawn by Init.
MaxRows == 2

\* --------------------------------------------------------------- constants
\* Frames per second of the table's times.
FPS == 60
\* The share of a compound slice given to the transition (scale = 0.3).
ScaleNum == 3
ScaleDen == 10

\* --------------------------------------------------------------- rationals
RECURSIVE Gcd(_, _)
Gcd(a, b) == IF b = 0 THEN a ELSE Gcd(b, a % b)

Abs(x) == IF x < 0 THEN 0 - x ELSE x

Rat(n, d) ==
    LET g == Gcd(Abs(n), Abs(d))
        s == IF d < 0 THEN 0 - 1 ELSE 1
    IN  <<(s * n) \div g, (s * d) \div g>>

RInt(k) == <<k, 1>>
RAdd(a, b) == Rat(a[1] * b[2] + b[1] * a[2], a[2] * b[2])
RSub(a, b) == Rat(a[1] * b[2] - b[1] * a[2], a[2] * b[2])
RMul(a, b) == Rat(a[1] * b[1], a[2] * b[2])
RDiv(a, b) == Rat(a[1] * b[2], a[2] * b[1])
RLe(a, b) == a[1] * b[2] <= b[1] * a[2]
RLt(a, b) == a[1] * b[2] < b[1] * a[2]
IsInt(a) == a[2] = 1

\* math.floor and math.ceil
RFloor(a) == a[1] \div a[2]
RCeil(a) == 0 - ((0 - a[1]) \div a[2])

\* ------------------------------------------------------------ the MMS rows
HoldName == <<"<HOLD>">>
NonePath == [dir |-> "/none", file |-> <<>>]
NoRange == <<0, 0 - 1>>

\* MMSLine.find_datatype: "category:name" selects the category, a bare name
\* is of category "signs". A cell is [prefix, parts]: the text before the
\* colon ("" when there is no colon) and the hyphen-separated parts of the
\* name.
find_datatype(cell) ==
    IF cell.prefix = "" THEN <<cell.parts, "signs">>
    ELSE <<cell.parts, cell.prefix>>

\* MMSLine.__init__ : the line of a row (or of a compound fragment).
MMSLine(cell, framestart, frameend, transition, duration, infl, gloss_idx) ==
    [idx |-> gloss_idx,
     name |-> find_datatype(cell)[1],
     datatype |-> find_datatype(cell)[2],
     framestart |-> framestart,
     frameend |-> frameend,
     transition |-> transition,
     duration |-> duration,
     infl |-> infl,
     path |-> NonePath,
     original_frame_range |-> NoRange,
     resampled_frame_range |-> NoRange]

\* MMSLine.timing: (ceil(framestart * 60), floor(frameend * 60)).
TimingSwapped(line) ==
    LET s == RCeil(RMul(line.framestart, RInt(FPS)))
        e == RFloor(RMul(line.frameend, RInt(FPS)))
    IN  IF s > e THEN <<e, s>> ELSE <<s, e>>

TimingEndExclusive(line) ==
    <<RCeil(RMul(line.framestart, RInt(FPS))),
      RFloor(RMul(line.frameend, RInt(FPS))) - 1>>

timing(line) ==
    <<RCeil(RMul(line.framestart, RInt(FPS))),
      RFloor(RMul(line.frameend, RInt(FPS)))>>

\* MMSLine.transition
transition(line) == RCeil(RMul(line.transition, RInt(FPS)))

\* MMSLine.duration: (ratio, True) for "NN%", else (frames, False).
duration(line) ==
    IF line.duration.pct
    THEN <<RDiv(line.duration.num, RInt(100)), TRUE>>
    ELSE <<RInt(RCeil(RMul(line.duration.num, RInt(FPS)))), FALSE>>

\* The fragments of a compound row (the loop of MMSParser.parse over names).
SplitGapless(row, prefix, names, idx) ==
    LET start == row.framestart
        end == row.frameend
        diff == RSub(end, start)
        delta == RDiv(diff, RInt(Len(names)))
        scale == Rat(ScaleNum, ScaleDen)
    IN  [i \in 1..Len(names) |->
            MMSLine([prefix |-> prefix, parts |-> <<names[i]>>],
                    RAdd(start, RMul(delta, RInt(i - 1))),
                    RAdd(start, RMul(delta, RInt(i))),
                    IF i = Len(names) THEN row.transition
                    ELSE RMul(scale, delta),
                    row.duration,
                    row.infl,
                    idx + i - 1)]

SplitCompound(row, prefix, names, idx) ==
    LET start == row.framestart
        end == row.frameend
        diff == RSub(end, start)
        delta == RDiv(diff, RInt(Len(names)))
        scale == Rat(ScaleNum, ScaleDen)
    IN  [i \in 1..Len(names) |->
            MMSLine([prefix |-> prefix, parts |-> <<names[i]>>],
                    RAdd(start, RMul(delta, RInt(i - 1))),
                    RSub(RAdd(start, RMul(delta, RInt(i))), RMul(scale, delta)),
                    IF i = Len(names) THEN row.transition
                    ELSE RMul(scale, delta),
                    row.duration,
                    row.infl,
                    idx + i - 1)]

\* The row loop of MMSParser.parse: the lines in row order, indexed by idx.
RECURSIVE ParseRows(_, _, _)
ParseRows(rows, idx, acc) ==
    IF rows = <<>> THEN acc
    ELSE LET row == Head(rows)
             dt == find_datatype(row.cell)
             name == dt[1]
             prefix == dt[2]
         IN  IF prefix # "signs" /\ Len(name) > 1
             THEN ParseRows(Tail(rows), idx + Len(name),
                            acc \o SplitCompound(row, prefix, name, idx))
             ELSE ParseRows(Tail(rows), idx + 1,
                            Append(acc, MMSLine(row.cell, row.framestart,
                                                row.frameend, row.transition,
                                                row.duration, row.infl,
                                                idx)))

\* sorted(..., key=timing()[0]): a stable sort by start frame.
RECURSIVE InsertByStart(_, _)
InsertByStart(sorted, line) ==
    IF sorted = <<>> THEN <<line>>
    ELSE LET last == sorted[Len(sorted)]
         IN  IF timing(last)[1] <= timing(line)[1]
             THEN Append(sorted, line)
             ELSE Append(InsertByStart(SubSeq(sorted, 1, Len(sorted) - 1), line),
                         last)

RECURSIVE SortByStart(_, _)
SortByStart(lines, acc) ==
    IF lines = <<>> THEN acc
    ELSE SortByStart(Tail(lines), InsertByStart(acc, Head(lines)))

\* MMSParser.parse
ParseReindexed(rows) ==
    LET sorted == SortByStart(ParseRows(rows, 0, <<>>), <<>>)
    IN  [p \in DOMAIN sorted |-> [sorted[p] EXCEPT !.idx = p - 1]]

parse(rows) == SortByStart(ParseRows(rows, 0, <<>>), <<>>)

\* ------------------------------------------------- the motion capture library
Channels == {"location", "rotation_euler"}

SignsA == [dir |-> "signs", file |-> <<"A">>]
SignsB == [dir |-> "signs", file |-> <<"B">>]
Num1 == [dir |-> "num", file |-> <<"1">>]
Num5 == [dir |-> "num", file |-> <<"5">>]
Num9 == [dir |-> "num", file |-> <<"9">>]
Library == {SignsA, SignsB, Num1, Num5, Num9}

\* The frame range of the action stored in a motion file.
LibraryRange(path) ==
    CASE path = SignsA -> <<1, 5>>
      [] path = SignsB -> <<3, 6>>
      [] path = Num1 -> <<1, 3>>
      [] path = Num5 -> <<1, 4>>
      [] OTHER -> <<2, 4>>

LibraryTag(path) ==
    CASE path = SignsA -> 100
      [] path = SignsB -> 200
      [] path = Num1 -> 300
      [] path = Num5 -> 400
      [] OTHER -> 500

\* The action stored in a motion file: one keyframe per frame and channel.
LibraryAction(path) ==
    [ch \in Channels |->
        [k \in LibraryRange(path)[1]..LibraryRange(path)[2] |->
            RInt(LibraryTag(path) + k * k + (IF ch = "location" THEN 0 ELSE 50))]]

\* ------------------------------------------------------------ host curves
\* An action is a function from channel to curve; a curve is a function from
\* the frames of its keyframes to their values.
SetMin(S) == CHOOSE x \in S : \A y \in S : x <= y
SetMax(S) == CHOOSE x \in S : \A y \in S : y <= x

Frames(action) == UNION {DOMAIN action[ch] : ch \in Channels}

\* action.frame_range of an action that holds keyframes
frame_range(action) == <<SetMin(Frames(action)), SetMax(Frames(action))>>

\* fcurve.evaluate(frame) of the host: the keyframe's value at a keyframe,
\* linear between two keyframes, constant outside them.
evaluate(curve, pos) ==
    LET lo == SetMin(DOMAIN curve)
        hi == SetMax(DOMAIN curve)
        k == RFloor(pos)
    IN  IF RLe(pos, RInt(lo)) THEN curve[lo]
        ELSE IF RLe(RInt(hi), pos) THEN curve[hi]
        ELSE IF IsInt(pos) THEN curve[k]
        ELSE RAdd(curve[k],
                  RMul(RSub(pos, RInt(k)), RSub(curve[k + 1], curve[k])))

\* keyframe_points.insert(frame, value): a keyframe on the frame is replaced.
insert(curve, frame, value) ==
    [x \in DOMAIN curve \cup {frame} |-> IF x = frame THEN value ELSE curve[x]]

EmptyAction == [ch \in Channels |-> <<>>]

\* ------------------------------------------------- the inflection columns
\* A column of the table's header is named key + axis, the key being a
\* dominance ("dom", "ndom" or "") and a parameter: <<"dom", "handreloc", "x">>
\* is the column domhandrelocx.
Axes == {"x", "y", "z"}
HandKeys(dominance) ==
    {<<dominance, "handreloc">>, <<dominance, "handreloca">>,
     <<dominance, "handrelocs">>, <<dominance, "handrot">>}
AllKeys ==
    HandKeys("dom") \cup HandKeys("ndom")
      \cup {<<"dom", "shoulderreloc">>, <<"ndom", "shoulderreloc">>,
            <<"", "torsoreloc">>, <<"", "torsoreloca">>, <<"", "headrot">>}
ColumnsOf(keys) == {<<k[1], k[2], a>> : k \in keys, a \in Axes}

\* A cell is <<>> when it is empty (None after the parse) and <<v>> when it
\* holds the number v. None, of a 3-vector, is <<>> as well.
None == <<>>

\* MMSLine.handle_none: the three values of key + x/y/z, None when any of
\* them is empty.
HandleNoneWhenAllEmpty(line_data, key) ==
    LET x == line_data[<<key[1], key[2], "x">>]
        y == line_data[<<key[1], key[2], "y">>]
        z == line_data[<<key[1], key[2], "z">>]
        value(c) == IF c = None THEN 0 ELSE c[1]
    IN  IF x = None /\ y = None /\ z = None THEN None
        ELSE <<value(x), value(y), value(z)>>

handle_none(line_data, key) ==
    LET x == line_data[<<key[1], key[2], "x">>]
        y == line_data[<<key[1], key[2], "y">>]
        z == line_data[<<key[1], key[2], "z">>]
    IN  IF x = None \/ y = None \/ z = None THEN None
        ELSE <<x[1], y[1], z[1]>>

\* MMSParser.parse: inflections_availability, from the header.
inflections_availability(header) ==
    [domhandreloc |-> <<"dom", "handreloc", "x">> \in header,
     ndomhandreloc |-> <<"ndom", "handreloc", "x">> \in header,
     domhandrot |-> <<"dom", "handrot", "x">> \in header,
     ndomhandrot |-> <<"ndom", "handrot", "x">> \in header,
     torso |-> /\ <<"", "torsoreloca", "x">> \in header
               /\ <<"", "torsoreloc", "x">> \in header,
     head |-> <<"", "headrot", "x">> \in header,
     shoulders |-> <<"dom", "shoulderreloc", "x">> \in header]

\* The entries of the controller configuration: the target variant, the
\* dominance and the inflection type of every inflector.
IKTargetConfig(inflector) ==
    CASE inflector = "torso" ->
           [target |-> "RelativeLocRotTarget", dominance |-> "", itype |-> "torso"]
      [] inflector = "head" ->
           [target |-> "HeadRotTarget", dominance |-> "", itype |-> "head"]
      [] inflector = "shoulders.dom" ->
           [target |-> "RelativeLocRotTarget", dominance |-> "dom", itype |-> "shoulder"]
      [] inflector = "shoulders.ndom" ->
           [target |-> "RelativeLocRotTarget", dominance |-> "ndom", itype |-> "shoulder"]
      [] inflector = "hands.dom.loc" ->
           [target |-> "TrajectoryTarget", dominance |-> "dom", itype |-> "hand"]
      [] inflector = "hands.dom.rot" ->
           [target |-> "LocalRotationTarget", dominance |-> "dom", itype |-> "hand"]
      [] inflector = "hands.ndom.loc" ->
           [target |-> "TrajectoryTarget", dominance |-> "ndom", itype |-> "hand"]
      [] OTHER ->
           [target |-> "LocalRotationTarget", dominance |-> "ndom", itype |-> "hand"]

\* execute_pipeline: ik_target_list, in the order the inflectors are added.
IfAvailable(flag, inflectors) == IF flag THEN inflectors ELSE <<>>

ik_target_list(header, without_inflection) ==
    LET available == inflections_availability(header)
    IN  IF without_inflection THEN <<>>
        ELSE IfAvailable(available.torso, <<"torso">>)
               \o IfAvailable(available.head, <<"head">>)
               \o IfAvailable(available.shoulders,
                              <<"shoulders.dom", "shoulders.ndom">>)
               \o IfAvailable(available.domhandreloc, <<"hands.dom.loc">>)
               \o IfAvailable(available.domhandrot, <<"hands.dom.rot">>)
               \o IfAvailable(available.ndomhandreloc, <<"hands.ndom.loc">>)
               \o IfAvailable(available.ndomhandrot, <<"hands.ndom.rot">>)

\* ------------------------------------------------- the inflection targets
\* A delta is kept as the vectors it is built from: delta_t as a translation,
\* delta_o as the Euler angles of a rotation, delta_r as <<angles, scale>>.
\* The class attributes of Target are the identities.
IdentityT == <<0, 0, 0>>
IdentityO == <<0, 0, 0>>
IdentityR == <<<<0, 0, 0>>, <<1, 1, 1>>>>

\* TrajectoryTarget.instantiate: the controller object of a target, an empty
\* at the origin without animation. Its location and rotation are single
\* numbers here, and so are the translations and rotations applied to them.
NoCtrl ==
    [location |-> RInt(0), rotation_quaternion |-> RInt(0),
     keyframes |-> [location |-> <<>>, rotation_quaternion |-> <<>>]]

\* Controller.__init__: the target of an inflector of the list.
NewTarget(inflector) ==
    [inflector |-> inflector,
     target |-> IKTargetConfig(inflector).target,
     dominance |-> IKTargetConfig(inflector).dominance,
     itype |-> IKTargetConfig(inflector).itype,
     delta_r |-> IdentityR,
     delta_o |-> IdentityO,
     delta_t |-> IdentityT,
     constraints |-> 0,
     ctrl |-> NoCtrl]

\* The keys init_from_mms of a target reads from the row.
Reads(tgt) ==
    CASE tgt.target = "LocalRotationTarget" -> {<<tgt.dominance, "handrot">>}
      [] tgt.target = "TrajectoryTarget" ->
           {<<tgt.dominance, "handreloc">>, <<tgt.dominance, "handreloca">>,
            <<tgt.dominance, "handrelocs">>}
      [] tgt.target = "HeadRotTarget" -> {<<"", "headrot">>}
      [] OTHER ->
           IF tgt.itype = "torso"
           THEN {<<"", "torsoreloc">>, <<"", "torsoreloca">>}
           ELSE IF tgt.itype = "shoulder"
           THEN {<<tgt.dominance, "shoulderreloc">>}
           ELSE {}

\* init_from_mms of the four variants. MMSLine.__getitem__ raises KeyError for
\* a column the header does not have; None @ matrix raises TypeError.
init_from_mms(tgt, line_data, header) ==
    IF ~(ColumnsOf(Reads(tgt)) \subseteq header)
    THEN [fault |-> "KeyError", tgt |-> tgt]
    ELSE CASE tgt.target = "LocalRotationTarget" ->
                [fault |-> "",
                 tgt |-> [tgt EXCEPT !.delta_o =
                            handle_none(line_data, <<tgt.dominance, "handrot">>)]]
           [] tgt.target = "TrajectoryTarget" ->
                LET h_translation ==
                        handle_none(line_data, <<tgt.dominance, "handreloc">>)
                    h_rotation ==
                        handle_none(line_data, <<tgt.dominance, "handreloca">>)
                    h_scale ==
                        handle_none(line_data, <<tgt.dominance, "handrelocs">>)
                IN  IF h_rotation = None \/ h_scale = None
                    THEN [fault |-> "TypeError", tgt |-> tgt]
                    ELSE [fault |-> "",
                          tgt |-> [tgt EXCEPT !.delta_r = <<h_rotation, h_scale>>,
                                              !.delta_t = h_translation]]
           [] tgt.target = "HeadRotTarget" ->
                [fault |-> "",
                 tgt |-> [tgt EXCEPT !.delta_o =
                            handle_none(line_data, <<"", "headrot">>)]]
           [] OTHER ->
                IF tgt.itype = "torso"
                THEN [fault |-> "",
                      tgt |-> [tgt EXCEPT
                                 !.delta_t = handle_none(line_data, <<"", "torsoreloc">>),
                                 !.delta_o = handle_none(line_data, <<"", "torsoreloca">>)]]
                ELSE IF tgt.itype = "shoulder"
                THEN [fault |-> "",
                      tgt |-> [tgt EXCEPT !.delta_t =
                                 handle_none(line_data,
                                             <<tgt.dominance, "shoulderreloc">>)]]
                ELSE [fault |-> "", tgt |-> tgt]

\* inflect of the four variants raises TypeError when a delta it multiplies
\* with is None; LocalRotationTarget tests its delta first.
InflectRaises(tgt) ==
    CASE tgt.target = "LocalRotationTarget" -> FALSE
      [] tgt.target = "TrajectoryTarget" ->
           tgt.delta_t = None \/ tgt.delta_r = None
      [] tgt.target = "HeadRotTarget" -> tgt.delta_o = None
      [] OTHER -> tgt.delta_t = None \/ tgt.delta_o = None

\* The targets of the Trajectory family own a controller object.
IsTrajectory(tgt) == tgt.target # "LocalRotationTarget"

\* What the deltas of a target add to the solved pose: the pose solver is the
\* host's, so the inflection is a single offset, 0 for the identity.
Shift(v) == IF v = None THEN 0 ELSE v[1] + v[2] + v[3]
Effect(tgt) ==
    CASE tgt.target = "LocalRotationTarget" -> Shift(tgt.delta_o)
      [] tgt.target = "TrajectoryTarget" ->
           Shift(tgt.delta_t) + Shift(tgt.delta_r[1])
             + Shift(tgt.delta_r[2]) - Shift(IdentityR[2])
      [] tgt.target = "HeadRotTarget" -> Shift(tgt.delta_o)
      [] OTHER -> Shift(tgt.delta_t) + Shift(tgt.delta_o)

\* The host on a frame change: an animated property of the controller object
\* takes the value of its curve at the frame, the others keep theirs.
HostKeepsValues(ctrl, frame) == ctrl

HostEvaluate(ctrl, frame) ==
    LET Now(prop) == IF ctrl.keyframes[prop] = <<>> THEN ctrl[prop]
                     ELSE evaluate(ctrl.keyframes[prop], RInt(frame))
    IN  [ctrl EXCEPT !.location = Now("location"),
                     !.rotation_quaternion = Now("rotation_quaternion")]

\* ctrl.keyframe_insert(prop, frame=frame)
keyframe_insert(ctrl, prop, frame) ==
    [ctrl EXCEPT !.keyframes[prop] = insert(@, frame, ctrl[prop])]

\* setup_chain, step 2, one target of a frame: the controller object is put
\* where the pose has the target bone, and keyed.
drive(tgt, frame, pose) ==
    LET placed == [tgt.ctrl EXCEPT !.location = pose.location,
                                   !.rotation_quaternion = pose.rotation_euler]
    IN  [tgt EXCEPT !.ctrl =
           keyframe_insert(keyframe_insert(placed, "location", frame),
                           "rotation_quaternion", frame)]

\* inflect(frame) of the variants with a controller object; pose is the pose
\* of the dictionary armature at the host's frame.
inflect(tgt, frame, pose) ==
    CASE tgt.target = "LocalRotationTarget" -> tgt
      [] tgt.target = "TrajectoryTarget" ->
           [tgt EXCEPT !.ctrl =
              keyframe_insert(
                [tgt.ctrl EXCEPT !.location =
                    RAdd(pose.location, RInt(Effect(tgt)))],
                "location", frame)]
      [] tgt.target = "HeadRotTarget" ->
           [tgt EXCEPT !.ctrl =
              keyframe_insert(
                [tgt.ctrl EXCEPT !.rotation_quaternion =
                    RAdd(@, RInt(Shift(tgt.delta_o)))],
                "rotation_quaternion", frame)]
      [] OTHER ->
           LET moved == keyframe_insert(
                          [tgt.ctrl EXCEPT !.location =
                              RAdd(@, RInt(Shift(tgt.delta_t)))],
                          "location", frame)
           IN  [tgt EXCEPT !.ctrl =
                  keyframe_insert(
                    [moved EXCEPT !.rotation_quaternion =
                        RAdd(@, RInt(Shift(tgt.delta_o)))],
                    "rotation_quaternion", frame)]

\* ------------------------------------------------------------- the inputs
Sec(n, d) == Rat(n, d)
Pct(n) == [pct |-> TRUE, num |-> RInt(n)]
Secs(n, d) == [pct |-> FALSE, num |-> Rat(n, d)]

Row(prefix, parts, fs, fe, tr, dur, infl) ==
    [cell |-> [prefix |-> prefix, parts |-> parts],
     framestart |-> fs, frameend |-> fe,
     transition |-> tr, duration |-> dur, infl |-> infl]

\* The rows the tables of Init are built from.
RowSet ==
    { Row("", <<"A">>, Sec(0, 60), Sec(4, 60), Sec(1, 60), Pct(100), 0),
      Row("", <<"B">>, Sec(4, 60), Sec(7, 60), Sec(0, 60), Pct(50), 2),
      Row("", <<"A">>, Sec(3, 120), Sec(11, 120), Sec(1, 120), Secs(3, 60), 0),
      Row("", <<"B">>, Sec(6, 240), Sec(7, 240), Sec(0, 60), Secs(1, 60), 0),
      Row("", HoldName, Sec(7, 60), Sec(9, 60), Sec(0, 60), Secs(2, 60), 0),
      Row("", HoldName, Sec(1, 60), Sec(3, 60), Sec(1, 60), Pct(30), 0),
      Row("num", <<"1", "5">>, Sec(0, 60), Sec(8, 60), Sec(2, 60), Pct(100), 0),
      Row("", <<"A">>, Sec(2, 60), Sec(2, 60), Sec(0, 60), Pct(50), 3),
      Row("num", <<"1", "5", "9">>, Sec(1, 60), Sec(7, 60), Sec(1, 60), Pct(100), 0) }

RECURSIVE SeqsUpTo(_, _)
SeqsUpTo(S, n) ==
    IF n = 0 THEN {<<>>}
    ELSE LET shorter == SeqsUpTo(S, n - 1)
         IN  shorter \cup {Append(q, x) : q \in shorter, x \in S}

\* Two glosses timed at seconds 0..1 and 1..2.
ExampleTable ==
    << Row("", <<"A">>, Sec(0, 1), Sec(1, 1), Sec(0, 60), Pct(100), 0),
       Row("", <<"B">>, Sec(1, 1), Sec(2, 1), Sec(0, 60), Pct(100), 0) >>

Tables == (SeqsUpTo(RowSet, MaxRows) \ {<<>>}) \cup {ExampleTable}

Arguments ==
    [use_relative_time : BOOLEAN,
     without_inflection : BOOLEAN,
     ignore_gloss_duration : BOOLEAN]

Corpora == {Library, Library \ {SignsB}}

\* The headers and the inflection cells the controller is followed with.
NoColumns == {}
AllColumns == ColumnsOf(AllKeys)
DomHandColumns == ColumnsOf(HandKeys("dom"))
DomRotColumns == ColumnsOf({<<"dom", "handrot">>})
HeadTorsoColumns ==
    ColumnsOf({<<"", "headrot">>, <<"", "torsoreloc">>, <<"", "torsoreloca">>})
DomShoulderColumns == ColumnsOf({<<"dom", "shoulderreloc">>})
Headers ==
    {NoColumns, AllColumns, DomHandColumns, DomRotColumns, HeadTorsoColumns,
     DomShoulderColumns}

\* The value of a cell that makes its delta the identity.
IdentityValue(column) == IF column[2] = "handrelocs" THEN 1 ELSE 0
EmptyCells(header) == [c \in header |-> None]
IdentityCells(header) == [c \in header |-> <<IdentityValue(c)>>]
ShiftedCells(header) ==
    [c \in header |-> <<IdentityValue(c) + (IF c[3] = "x" THEN 1 ELSE 0)>>]
PartialCells(header) == [c \in header |-> IF c[3] = "x" THEN <<1>> ELSE None]
NoTranslationCells(header) ==
    [c \in header |-> IF c[2] = "handreloc" THEN None ELSE ShiftedCells(header)[c]]
LineData(header) ==
    {EmptyCells(header), IdentityCells(header), ShiftedCells(header),
     PartialCells(header), NoTranslationCells(header)}

ControllerTables ==
    { << Row("", <<"A">>, Sec(0, 60), Sec(4, 60), Sec(1, 60), Pct(100), 0) >>,
      << Row("", <<"B">>, Sec(4, 60), Sec(7, 60), Sec(0, 60), Pct(50), 0) >>,
      << Row("", <<"A">>, Sec(0, 60), Sec(4, 60), Sec(1, 60), Pct(100), 0),
         Row("", HoldName, Sec(7, 60), Sec(9, 60), Sec(0, 60), Secs(2, 60), 0) >> }

\* The tables the durations are followed with: a gloss with every kind of
\* duration cell (a share of the original length inside and outside 0..100 %,
\* seconds, zero) and of timing (end after, at and before the start).
DurationCells ==
    {Pct(0), Pct(50), Pct(100), Pct(150), Pct(0 - 20), Secs(0, 60), Secs(3, 60)}
Timings ==
    {<<Sec(0, 60), Sec(4, 60)>>, <<Sec(2, 60), Sec(2, 60)>>,
     <<Sec(5, 60), Sec(3, 60)>>}
DurationTables ==
    { << Row("", name, w[1], w[2], Sec(1, 60), d, 0) >> :
         name \in {<<"A">>, <<"B">>}, w \in Timings, d \in DurationCells }
    \cup
    { << Row("", <<"A">>, Sec(0, 60), Sec(4, 60), Sec(1, 60), Pct(50), 0),
         Row("", <<"B">>, Sec(4, 60), Sec(7, 60), Sec(0, 60), Pct(150), 0) >>,
      << Row("", <<"B">>, Sec(0, 60), Sec(4, 60), Sec(1, 60), Pct(50), 0),
         Row("", HoldName, Sec(4, 60), Sec(6, 60), Sec(0, 60), Secs(2, 60), 0) >> }

\* ------------------------------------------------------------------ state
VARIABLES
    pc,                 \* the step execute_pipeline is at
    args,               \* the command line arguments
    table,              \* the rows of the MMS file
    files,              \* the motion files present in the corpus
    mms,                \* MMS.glosses with their MMSLine, in merge order
    gi,                 \* position of the gloss the row loop is at
    src_action,         \* the action of the loaded (source) armature
    target_frame_count, \* resample's target_frame_count of the last call
    samples,            \* resample's samples of the last call
    inflected,          \* the actions inflected_<idx>_<name>, by idx
    final,              \* the action final_action
    last_gloss_end,     \* merge_animation's last_gloss_end
    mi,                 \* position of the gloss merge_animation is at
    step,               \* the locals of merge_animation's last iteration
    fault,              \* the exception that ended the run, "" if none
    header,             \* the inflection columns of the table's header
    line_data,          \* the inflection cells of the rows, by row index
    ik_targets,         \* Controller.ik_targets of the gloss at gi
    scene_frame,        \* the host's current frame (scene.frame_current)
    loop,               \* the frame and the target the controller's loops are at
    trace               \* the host calls of the controller for the gloss at gi

ctlvars == <<header, line_data, ik_targets, scene_frame, loop, trace>>

vars == <<pc, args, table, files, mms, gi, src_action, target_frame_count,
          samples, inflected, final, last_gloss_end, mi, step, fault, ctlvars>>

NoLoop == [frame |-> 0, target |-> 0]

NoStep == [kind |-> "none", pos |-> 0, start |-> RInt(0), end |-> RInt(0),
           end_frame |-> RInt(0), source |-> 0]

Init ==
    /\ pc = "parse"
    /\ args \in Arguments
    /\ table \in Tables
    /\ files \in Corpora
    /\ mms = <<>>
    /\ gi = 0
    /\ src_action = EmptyAction
    /\ target_frame_count = 0
    /\ samples = <<>>
    /\ inflected = <<>>
    /\ final = EmptyAction
    /\ last_gloss_end = RInt(1)
    /\ mi = 0
    /\ step = NoStep
    /\ fault = ""
    /\ header = NoColumns
    /\ line_data = <<>>
    /\ ik_targets = <<>>
    /\ scene_frame = 1
    /\ loop = NoLoop
    /\ trace = <<>>

\* ------------------------------------------------------- MMSParser.parse
Parse ==
    /\ pc = "parse"
    /\ mms' = parse(table)
    /\ pc' = "resolve"
    /\ UNCHANGED <<args, table, files, gi, src_action, target_frame_count,
                   samples, inflected, final, last_gloss_end, mi, step, fault>>
    /\ UNCHANGED ctlvars

\* ------------------------------------------- MMS.find_mocap_data_files
\* The loop over the glosses from position num on; gloss_path is the loop's
\* local of that name, bound once a gloss that is no HOLD was seen.
RECURSIVE ResolveFrom(_, _, _, _, _)
ResolveFrom(lines, num, bound, gloss_path, present) ==
    IF num > Len(lines) THEN [ok |-> TRUE, lines |-> lines, fault |-> ""]
    ELSE LET gloss == lines[num]
         IN  IF gloss.name = HoldName
             THEN IF ~bound
                  THEN [ok |-> FALSE, lines |-> lines,
                        fault |-> "UnboundLocalError"]
                  ELSE ResolveFrom(
                         [lines EXCEPT ![num].path = gloss_path,
                                       ![num].datatype = "HOLD"],
                         num + 1, bound, gloss_path, present)
             ELSE LET path == [dir |-> gloss.datatype, file |-> gloss.name]
                  IN  IF path \notin present
                      THEN [ok |-> FALSE, lines |-> lines,
                            fault |-> "Exception: motion capture file not present"]
                      ELSE ResolveFrom([lines EXCEPT ![num].path = path],
                                       num + 1, TRUE, path, present)

FindWithoutExistsCheck(lines, present) ==
    ResolveFrom(lines, 1, FALSE, NonePath,
                present \cup {[dir |-> lines[p].datatype, file |-> lines[p].name] :
                                 p \in DOMAIN lines})

HoldCopiedBeforeResolution(lines, present) ==
    LET r == ResolveFrom(lines, 1, FALSE, NonePath, present)
    IN  [r EXCEPT !.lines =
            [p \in DOMAIN r.lines |->
                IF r.lines[p].name = HoldName /\ p > 1
                THEN [r.lines[p] EXCEPT !.path = lines[p - 1].path]
                ELSE r.lines[p]]]

find_mocap_data_files(lines, present) ==
    ResolveFrom(lines, 1, FALSE, NonePath, present)

FindMocapDataFiles ==
    /\ pc = "resolve"
    /\ LET r == find_mocap_data_files(mms, files)
       IN  /\ mms' = r.lines
           /\ fault' = r.fault
           /\ pc' = IF r.ok THEN "load" ELSE "aborted"
    /\ gi' = 1
    /\ UNCHANGED <<args, table, files, src_action, target_frame_count, samples,
                   inflected, final, last_gloss_end, mi, step>>
    /\ UNCHANGED ctlvars

\* ------------------------------------ the row loop of execute_pipeline
\* ArmatureOperator.__init__ (load_animation) and copy_armature: the motion
\* file's action becomes the source armature's action, and the duplicate
\* armature gets the new, empty action inflected_<idx>_<name>.
LoadGloss ==
    /\ pc = "load"
    /\ gi <= Len(mms)
    /\ IF mms[gi].path \notin files
       THEN /\ pc' = "aborted"
            /\ fault' = "Exception: file not found for gloss"
            /\ UNCHANGED <<src_action, inflected>>
       ELSE /\ src_action' = LibraryAction(mms[gi].path)
            /\ inflected' =
                 [i \in DOMAIN inflected \cup {mms[gi].idx} |->
                    IF i = mms[gi].idx THEN EmptyAction ELSE inflected[i]]
            /\ pc' = "resample"
            /\ UNCHANGED fault
    /\ UNCHANGED <<args, table, files, mms, gi, target_frame_count, samples,
                   final, last_gloss_end, mi, step>>
    /\ UNCHANGED ctlvars

\* ArmatureOperator.resample: the target frame count.
CountWithoutPlusOne(line, action, use_rel_time) ==
    IF ~use_rel_time
    THEN timing(line)[2] - timing(line)[1]
    ELSE LET d == duration(line)
             frame_start == frame_range(action)[1]
             frame_end == frame_range(action)[2]
         IN  IF d[2]
             THEN RCeil(RMul(d[1], RInt(frame_end - frame_start)))
             ELSE RFloor(d[1]) - 1

TargetFrameCount(line, action, use_rel_time) ==
    IF ~use_rel_time
    THEN timing(line)[2] - timing(line)[1] + 1
    ELSE LET d == duration(line)
             frame_start == frame_range(action)[1]
             frame_end == frame_range(action)[2]
         IN  IF d[2]
             THEN RCeil(RAdd(RMul(d[1], RInt(frame_end - frame_start)),
                             RInt(1)))
             ELSE RFloor(d[1])

\* ArmatureOperator.resample: the sample positions.
SamplesRatioByCount(action, count) ==
    LET frame_start == frame_range(action)[1]
        frame_end == frame_range(action)[2]
        ratio == Rat(frame_end - frame_start, count)
    IN  [x \in 1..count |-> RAdd(RInt(frame_start), RMul(RInt(x - 1), ratio))]

Samples(action, count) ==
    LET frame_start == frame_range(action)[1]
        frame_end == frame_range(action)[2]
        ratio == Rat(frame_end - frame_start, count - 1)
    IN  [x \in 1..count |-> RAdd(RInt(frame_start), RMul(RInt(x - 1), ratio))]

\* ArmatureOperator.resample with extract.set_rotation_and_location: sample
\* number frame_number is written as keyframe frame_number + 1.
SampledFromZero(action, positions) ==
    [ch \in Channels |->
        [k \in 0..(Len(positions) - 1) |-> evaluate(action[ch], positions[k + 1])]]

SampledAction(action, positions) ==
    [ch \in Channels |->
        [k \in 1..Len(positions) |-> evaluate(action[ch], positions[k])]]

\* ArmatureOperator.resample, called unless --ignore-gloss-duration is given.
\* A target frame count of 1 divides by zero; a count below 1 leaves an action
\* without keyframes, whose frame range is the host's business: the run is
\* not followed further.
Resample ==
    /\ pc = "resample"
    /\ ~args.ignore_gloss_duration
    /\ LET line == mms[gi]
           count == TargetFrameCount(line, src_action, args.use_relative_time)
       IN  /\ target_frame_count' = count
           /\ mms' = [mms EXCEPT ![gi].original_frame_range =
                                    frame_range(src_action),
                                 ![gi].resampled_frame_range =
                                    IF count >= 2 THEN <<1, count>> ELSE NoRange]
           /\ IF count = 1
              THEN /\ pc' = "aborted"
                   /\ fault' = "ZeroDivisionError"
                   /\ UNCHANGED <<samples, src_action>>
              ELSE IF count < 1
              THEN /\ pc' = "host_defined"
                   /\ samples' = <<>>
                   /\ src_action' = EmptyAction
                   /\ UNCHANGED fault
              ELSE /\ samples' = Samples(src_action, count)
                   /\ src_action' = SampledAction(src_action, samples')
                   /\ pc' = "setup"
                   /\ UNCHANGED fault
    /\ UNCHANGED <<args, table, files, gi, inflected, final, last_gloss_end,
                   mi, step>>
    /\ UNCHANGED ctlvars

\* --ignore-gloss-duration: the source action is used as loaded.
SkipResample ==
    /\ pc = "resample"
    /\ args.ignore_gloss_duration
    /\ pc' = "setup"
    /\ UNCHANGED <<args, table, files, mms, gi, src_action, target_frame_count,
                   samples, inflected, final, last_gloss_end, mi, step, fault>>
    /\ UNCHANGED ctlvars

\* Controller.setup_chain, step 1: the source armature's pose of every frame
\* of the source action's range is keyed into inflected_<idx>_<name>.
Capture(action) ==
    LET start == frame_range(action)[1]
        end == frame_range(action)[2]
    IN  [ch \in Channels |->
            [frame \in start..end |-> evaluate(action[ch], RInt(frame))]]

SetupChain ==
    /\ pc = "setup"
    /\ inflected' = [inflected EXCEPT ![mms[gi].idx] = Capture(src_action)]
    /\ IF args.without_inflection
       THEN pc' = "load" /\ gi' = gi + 1
       ELSE pc' = "execute" /\ gi' = gi
    /\ UNCHANGED <<args, table, files, mms, src_action, target_frame_count,
                   samples, final, last_gloss_end, mi, step, fault>>
    /\ UNCHANGED ctlvars

\* Controller.execute: the inflected pose of every frame of the action's
\* range is baked into the action. The pose solver is the host's: the row's
\* inflection is a single offset here, 0 when the row has none.
Bake(action, infl) ==
    LET start == frame_range(action)[1]
        stop == frame_range(action)[2]
    IN  [ch \in Channels |->
            [frame \in start..stop |->
                RAdd(evaluate(action[ch], RInt(frame)), RInt(infl))]]

Execute ==
    /\ pc = "execute"
    /\ inflected' = [inflected EXCEPT
                       ![mms[gi].idx] = Bake(inflected[mms[gi].idx], mms[gi].infl)]
    /\ pc' = "load"
    /\ gi' = gi + 1
    /\ UNCHANGED <<args, table, files, mms, src_action, target_frame_count,
                   samples, final, last_gloss_end, mi, step, fault>>
    /\ UNCHANGED ctlvars

\* ------------------------------------------- the controller, step by step
\* A call of the controller to the host: frame_set, capture, drive, link,
\* init, inflect or bake, with the frame and the target it is for and the
\* host's current frame when it is made.
Event(op, frame, target, at) ==
    [op |-> op, frame |-> frame, target |-> target, at |-> at]

\* add_constraints of a target: TrajectoryTarget and its subclasses put a new
\* IK constraint on the target bone, the other targets do nothing.
AddConstraintsOnce(tgt) ==
    [tgt EXCEPT !.constraints = IF IsTrajectory(tgt) THEN 1 ELSE 0]

add_constraints(tgt) ==
    [tgt EXCEPT !.constraints = @ + (IF IsTrajectory(tgt) THEN 1 ELSE 0)]

\* range(start, end + 1) over the frame range of an action: the first and the
\* last frame of the loops of setup_chain and execute.
LoopRangeExclusive(action) ==
    <<frame_range(action)[1], frame_range(action)[2] - 1>>

LoopRange(action) == <<frame_range(action)[1], frame_range(action)[2]>>

\* bpy.context.scene.frame_set(frame): the host's current frame after the call.
FrameSetDropped(current, frame) == current

frame_set(current, frame) == frame

\* execute_pipeline: Controller.execute is called unless the run is without
\* inflection.
CallsExecuteAlways(without_inflection) == TRUE

CallsExecute(without_inflection) == ~without_inflection

\* The pose an armature with the action shows at the host's frame.
Pose(action, frame) == [ch \in Channels |-> evaluate(action[ch], RInt(frame))]

RECURSIVE SumEffects(_, _)
SumEffects(targets, n) ==
    IF n = 0 THEN 0
    ELSE SumEffects(targets, n - 1)
           + (IF IsTrajectory(targets[n]) THEN Effect(targets[n]) ELSE 0)

\* Controller.__init__ and the head of setup_chain: the targets of the list
\* are created, the inflected action becomes the target armature's action and
\* the host is set to the first frame of the source action.
NewController ==
    /\ pc = "setup"
    /\ LET list == ik_target_list(header, args.without_inflection)
           start == LoopRange(src_action)[1]
       IN  /\ ik_targets' = [i \in 1..Len(list) |-> NewTarget(list[i])]
           /\ scene_frame' = frame_set(scene_frame, start)
           /\ loop' = [frame |-> start, target |-> 1]
           /\ trace' = <<Event("frame_set", start, 0, scene_frame')>>
    /\ pc' = "capture"
    /\ UNCHANGED <<args, table, files, mms, gi, src_action, target_frame_count,
                   samples, inflected, final, last_gloss_end, mi, step, fault,
                   header, line_data>>

\* setup_chain, step 1, one frame: the pose of the source armature at the
\* frame is keyed into the inflected action.
CaptureFrame ==
    /\ pc = "capture"
    /\ LET frame == loop.frame
           start == LoopRange(src_action)[1]
           end == LoopRange(src_action)[2]
           idx == mms[gi].idx
       IN  /\ scene_frame' = frame_set(scene_frame, frame)
           /\ inflected' =
                [inflected EXCEPT ![idx] =
                    [ch \in Channels |->
                        insert(inflected[idx][ch], frame,
                               evaluate(src_action[ch], RInt(scene_frame')))]]
           /\ trace' = trace \o <<Event("frame_set", frame, 0, scene_frame'),
                                  Event("capture", frame, 0, scene_frame')>>
           /\ IF frame = end
              THEN pc' = "drive" /\ loop' = [frame |-> start, target |-> 1]
              ELSE pc' = pc /\ loop' = [loop EXCEPT !.frame = frame + 1]
    /\ UNCHANGED <<args, table, files, mms, gi, src_action, target_frame_count,
                   samples, final, last_gloss_end, mi, step, fault,
                   header, line_data, ik_targets>>

\* setup_chain, step 2, one frame: the controller object of every target of
\* the Trajectory family is keyed to the pose at the frame.
DriveFrame ==
    /\ pc = "drive"
    /\ LET frame == loop.frame
           start == LoopRange(src_action)[1]
           end == LoopRange(src_action)[2]
           all == [i \in 1..Len(ik_targets) |->
                     Event("drive", frame, i, scene_frame')]
           OwnsController(e) == IsTrajectory(ik_targets[e.target])
       IN  /\ scene_frame' = frame_set(scene_frame, frame)
           /\ trace' = (trace \o <<Event("frame_set", frame, 0, scene_frame')>>)
                          \o SelectSeq(all, OwnsController)
           /\ ik_targets' =
                [t \in DOMAIN ik_targets |->
                    IF IsTrajectory(ik_targets[t])
                    THEN drive(ik_targets[t], frame,
                               Pose(inflected[mms[gi].idx], scene_frame'))
                    ELSE ik_targets[t]]
           /\ IF frame = end
              THEN pc' = "link" /\ loop' = [frame |-> end, target |-> 1]
              ELSE pc' = pc /\ loop' = [loop EXCEPT !.frame = frame + 1]
    /\ UNCHANGED <<args, table, files, mms, gi, src_action, target_frame_count,
                   samples, inflected, final, last_gloss_end, mi, step, fault,
                   header, line_data>>

\* setup_chain, step 3, one target: add_constraints, and init_from_mms unless
\* the run is without inflection.
LinkTarget ==
    /\ pc = "link"
    /\ loop.target <= Len(ik_targets)
    /\ LET t == loop.target
               linked == add_constraints(ik_targets[t])
           r == IF args.without_inflection THEN [fault |-> "", tgt |-> linked]
                ELSE init_from_mms(linked, line_data[mms[gi].idx], header)
       IN  /\ ik_targets' = [ik_targets EXCEPT ![t] = r.tgt]
           /\ trace' = (trace \o <<Event("link", 0, t, scene_frame)>>)
                          \o (IF args.without_inflection THEN <<>>
                              ELSE <<Event("init", 0, t, scene_frame)>>)
           /\ IF r.fault # ""
              THEN pc' = "aborted" /\ fault' = r.fault /\ loop' = loop
              ELSE pc' = pc /\ fault' = fault
                   /\ loop' = [loop EXCEPT !.target = t + 1]
    /\ UNCHANGED <<args, table, files, mms, gi, src_action, target_frame_count,
                   samples, inflected, final, last_gloss_end, mi, step,
                   header, line_data, scene_frame>>

\* setup_chain returns; execute_pipeline calls Controller.execute unless the
\* run is without inflection, and execute reads the range of the inflected
\* action.
SetupReturn ==
    /\ pc = "link"
    /\ loop.target > Len(ik_targets)
    /\ IF ~CallsExecute(args.without_inflection)
       THEN pc' = "load" /\ gi' = gi + 1 /\ loop' = loop
       ELSE /\ pc' = "inflect"
            /\ gi' = gi
            /\ loop' = [frame |-> LoopRange(inflected[mms[gi].idx])[1] - 1,
                        target |-> Len(ik_targets) + 1]
    /\ UNCHANGED <<args, table, files, mms, src_action, target_frame_count,
                   samples, inflected, final, last_gloss_end, mi, step, fault,
                   header, line_data, ik_targets, scene_frame, trace>>

\* Controller.execute, the head of an iteration of the frame loop: frame_set.
FrameSet ==
    /\ pc = "inflect"
    /\ loop.target > Len(ik_targets)
    /\ loop.frame < LoopRange(inflected[mms[gi].idx])[2]
    /\ scene_frame' = frame_set(scene_frame, loop.frame + 1)
    /\ loop' = [frame |-> loop.frame + 1, target |-> 1]
    /\ trace' = Append(trace, Event("frame_set", loop.frame + 1, 0, scene_frame'))
    /\ ik_targets' =
         [t \in DOMAIN ik_targets |->
             [ik_targets[t] EXCEPT !.ctrl = HostEvaluate(@, scene_frame')]]
    /\ UNCHANGED <<pc, args, table, files, mms, gi, src_action,
                   target_frame_count, samples, inflected, final,
                   last_gloss_end, mi, step, fault, header, line_data>>

\* Controller.execute, one target of a frame: inflect(frame). A
\* LocalRotationTarget keys the rotation of its bone, read at the host's
\* current frame, into the inflected action; the others key their controller
\* object.
Inflect ==
    /\ pc = "inflect"
    /\ loop.target <= Len(ik_targets)
    /\ LET tgt == ik_targets[loop.target]
           idx == mms[gi].idx
           rotation == inflected[idx]["rotation_euler"]
       IN  /\ trace' = Append(trace, Event("inflect", loop.frame, loop.target,
                                           scene_frame))
           /\ IF InflectRaises(tgt)
              THEN /\ pc' = "aborted"
                   /\ fault' = "TypeError"
                   /\ UNCHANGED <<loop, inflected, ik_targets>>
              ELSE /\ loop' = [loop EXCEPT !.target = loop.target + 1]
                   /\ ik_targets' =
                        [ik_targets EXCEPT ![loop.target] =
                            inflect(tgt, loop.frame,
                                    Pose(src_action, scene_frame))]
                   /\ inflected' =
                        IF IsTrajectory(tgt) THEN inflected
                        ELSE [inflected EXCEPT ![idx]["rotation_euler"] =
                                insert(rotation, loop.frame,
                                       RAdd(evaluate(rotation, RInt(scene_frame)),
                                            RInt(Effect(tgt))))]
                   /\ UNCHANGED <<pc, fault>>
    /\ UNCHANGED <<args, table, files, mms, gi, src_action, target_frame_count,
                   samples, final, last_gloss_end, mi, step, header, line_data,
                   scene_frame>>

\* Controller.execute, after the last frame: the solved pose of every frame
\* is baked into the inflected action.
BakeAction ==
    /\ pc = "inflect"
    /\ loop.target > Len(ik_targets)
    /\ loop.frame = LoopRange(inflected[mms[gi].idx])[2]
    /\ inflected' = [inflected EXCEPT ![mms[gi].idx] =
                       Bake(inflected[mms[gi].idx],
                            SumEffects(ik_targets, Len(ik_targets)))]
    /\ trace' = Append(trace, Event("bake", 0, 0, scene_frame))
    /\ pc' = "load"
    /\ gi' = gi + 1
    /\ UNCHANGED <<args, table, files, mms, src_action, target_frame_count,
                   samples, final, last_gloss_end, mi, step, fault, header,
                   line_data, ik_targets, scene_frame, loop>>

\* ---------------------------------------------------------------- Glue
\* Glue.__init__ and Glue.create_new_fcurves: final_action gets the channels
\* of the first gloss's inflected action, without keyframes.
CreateNewFcurves ==
    /\ pc = "load"
    /\ gi > Len(mms)
    /\ final' = EmptyAction
    /\ last_gloss_end' = RInt(1)
    /\ mi' = 1
    /\ pc' = "merge"
    /\ UNCHANGED <<args, table, files, mms, gi, src_action, target_frame_count,
                   samples, inflected, step, fault>>
    /\ UNCHANGED ctlvars

\* The inner loop of combine_animation: every keyframe of the source curve is
\* inserted into the target curve, its frame moved by offset.
CopyKeyframes(target_fcurve, source_fcurve, offset) ==
    LET moved == {RAdd(RInt(k), offset) : k \in DOMAIN source_fcurve}
    IN  [x \in DOMAIN target_fcurve \cup moved |->
            IF x \in moved THEN source_fcurve[RFloor(RSub(x, offset))]
            ELSE target_fcurve[x]]

\* Glue.combine_animation: the target with the source's keyframes, and the
\* returned end.
CombineNoOffByOne(target, source, start) ==
    [action |->
        [ch \in Channels |->
            CopyKeyframes(target[ch], source[ch], start)],
     end |-> RAdd(RInt(frame_range(source)[2]), start)]

CombineReturnsLastWritten(target, source, start) ==
    [action |->
        [ch \in Channels |->
            CopyKeyframes(target[ch], source[ch], RSub(start, RInt(1)))],
     end |-> RSub(RAdd(RInt(frame_range(source)[2]), start), RInt(1))]

combine_animation(target, source, start) ==
    [action |->
        [ch \in Channels |->
            CopyKeyframes(target[ch], source[ch], RSub(start, RInt(1)))],
     end |-> RAdd(RInt(frame_range(source)[2]), start)]

\* Glue.perform_hold: two keyframes with the value of the source's last one.
HoldFirstKeyframe(target, source, start, end) ==
    [action |->
        [ch \in Channels |->
            LET first_keyframe_point == source[ch][SetMin(DOMAIN source[ch])]
            IN  insert(insert(target[ch], start, first_keyframe_point),
                       end, first_keyframe_point)],
     end |-> end]

perform_hold(target, source, start, end) ==
    [action |->
        [ch \in Channels |->
            LET last_keyframe_point == source[ch][SetMax(DOMAIN source[ch])]
            IN  insert(insert(target[ch], start, last_keyframe_point),
                       end, last_keyframe_point)],
     end |-> end]

\* glosses[i] of Python, where a negative i counts from the end.
PyIndex(seq, i) == IF i < 0 THEN seq[Len(seq) + i + 1] ELSE seq[i + 1]

\* merge_animation: start and end of the gloss at position pos.
RelativeDurationResampled(line) ==
    LET d == duration(line)
        fs == line.resampled_frame_range[1]
        fe == line.resampled_frame_range[2]
    IN  IF d[2] THEN RMul(RInt(fe - fs), d[1]) ELSE d[1]

RelativeDuration(line) ==
    LET d == duration(line)
        fs == line.original_frame_range[1]
        fe == line.original_frame_range[2]
    IN  IF d[2] THEN RMul(RInt(fe - fs), d[1]) ELSE d[1]

MergeWindowNoShift(line, use_rel_time, last_end) ==
    IF use_rel_time
    THEN LET start == RAdd(last_end, RInt(transition(line)))
         IN  <<start, RAdd(start, RelativeDuration(line))>>
    ELSE <<RInt(timing(line)[1]), RInt(timing(line)[2])>>

MergeWindow(line, use_rel_time, last_end) ==
    IF use_rel_time
    THEN LET start == RAdd(last_end, RInt(transition(line)))
         IN  <<start, RAdd(start, RelativeDuration(line))>>
    ELSE <<RInt(timing(line)[1] + 1), RInt(timing(line)[2] + 1)>>

\* The assertion that ends an iteration of merge_animation.
CompatibleWithinTwo(end, end_frame) ==
    /\ RLe(RSub(end, RInt(2)), end_frame)
    /\ RLe(end_frame, RAdd(end, RInt(2)))

Compatible(end, end_frame) ==
    /\ RLe(RSub(end, RInt(1)), end_frame)
    /\ RLe(end_frame, RAdd(end, RInt(1)))

\* merge_animation skips a gloss whose file is gone.
MergeSkipMovesCursor ==
    /\ pc = "merge"
    /\ mi <= Len(mms)
    /\ mms[mi].path \notin files
    /\ mi' = mi + 1
    /\ step' = [NoStep EXCEPT !.kind = "skip", !.pos = mi]
    /\ last_gloss_end' = RAdd(last_gloss_end, RInt(transition(mms[mi])))
    /\ UNCHANGED <<pc, args, table, files, mms, gi, src_action,
                   target_frame_count, samples, inflected, final, fault>>
    /\ UNCHANGED ctlvars

MergeSkip ==
    /\ pc = "merge"
    /\ mi <= Len(mms)
    /\ mms[mi].path \notin files
    /\ mi' = mi + 1
    /\ step' = [NoStep EXCEPT !.kind = "skip", !.pos = mi]
    /\ UNCHANGED <<pc, args, table, files, mms, gi, src_action,
                   target_frame_count, samples, inflected, final,
                   last_gloss_end, fault>>
    /\ UNCHANGED ctlvars

\* An iteration of merge_animation in relative time that raises before it
\* merges: the ratio is outside [0, 1], or the gloss was never resampled and
\* has no original frame range.
MergeRaises(line) ==
    /\ args.use_relative_time
    /\ duration(line)[2]
    /\ \/ ~(RLe(RInt(0), duration(line)[1]) /\ RLe(duration(line)[1], RInt(1)))
       \/ line.original_frame_range = NoRange

MergeFaultName(line) ==
    IF ~(RLe(RInt(0), duration(line)[1]) /\ RLe(duration(line)[1], RInt(1)))
    THEN "AssertionError: ratio"
    ELSE "TypeError: original_frame_range is None"

\* One iteration of the loop of merge_animation.
MergeStep ==
    /\ pc = "merge"
    /\ mi <= Len(mms)
    /\ mms[mi].path \in files
    /\ LET line == mms[mi]
       IN  IF MergeRaises(line)
           THEN /\ pc' = "aborted"
                /\ fault' = MergeFaultName(line)
                /\ UNCHANGED <<final, last_gloss_end, mi, step>>
           ELSE LET w == MergeWindow(line, args.use_relative_time, last_gloss_end)
                    start == w[1]
                    end == w[2]
                    hold == line.datatype = "HOLD"
                    source == IF hold THEN PyIndex(mms, line.idx - 1).idx
                              ELSE line.idx
                    r == IF hold
                         THEN perform_hold(final, inflected[source], start, end)
                         ELSE combine_animation(final, inflected[source], start)
                IN  /\ final' = r.action
                    /\ last_gloss_end' = end
                    /\ step' = [kind |-> IF hold THEN "hold" ELSE "combine",
                                pos |-> mi, start |-> start, end |-> end,
                                end_frame |-> r.end, source |-> source]
                    /\ IF Compatible(end, r.end)
                       THEN /\ mi' = mi + 1
                            /\ UNCHANGED <<pc, fault>>
                       ELSE /\ pc' = "aborted"
                            /\ fault' = "AssertionError: end"
                            /\ UNCHANGED mi
    /\ UNCHANGED <<args, table, files, mms, gi, src_action, target_frame_count,
                   samples, inflected>>
    /\ UNCHANGED ctlvars

\* The environment: a motion file that a gloss of the table uses is removed
\* from the corpus after the paths were resolved (at most one per run).
RemoveFile ==
    /\ pc \in {"load", "merge"}
    /\ files \in Corpora
    /\ \E i \in 1..Len(mms) : files' = files \ {mms[i].path}
    /\ files' # files
    /\ UNCHANGED <<pc, args, table, mms, gi, src_action, target_frame_count,
                   samples, inflected, final, last_gloss_end, mi, step, fault>>
    /\ UNCHANGED ctlvars

\* merge_animation returns: the sentence is handed to the export.
Finish ==
    /\ pc = "merge"
    /\ mi > Len(mms)
    /\ pc' = "done"
    /\ UNCHANGED <<args, table, files, mms, gi, src_action, target_frame_count,
                   samples, inflected, final, last_gloss_end, mi, step, fault>>
    /\ UNCHANGED ctlvars

Next ==
    \/ Parse
    \/ FindMocapDataFiles
    \/ LoadGloss
    \/ Resample
    \/ SkipResample
    \/ SetupChain
    \/ Execute
    \/ CreateNewFcurves
    \/ MergeSkip
    \/ MergeStep
    \/ Finish
    \/ RemoveFile

Spec == Init /\ [][Next]_vars

\* The pipeline with the controller followed call by call, on the tables of
\* ControllerTables with a header and inflection cells.
ControllerInit ==
    /\ pc = "parse"
    /\ args \in Arguments
    /\ table \in ControllerTables
    /\ files \in Corpora
    /\ mms = <<>>
    /\ gi = 0
    /\ src_action = EmptyAction
    /\ target_frame_count = 0
    /\ samples = <<>>
    /\ inflected = <<>>
    /\ final = EmptyAction
    /\ last_gloss_end = RInt(1)
    /\ mi = 0
    /\ step = NoStep
    /\ fault = ""
    /\ header \in Headers
    /\ \E cells \in LineData(header) :
          line_data = [i \in 0..(Len(table) - 1) |-> cells]
    /\ ik_targets = <<>>
    /\ scene_frame = 1
    /\ loop = NoLoop
    /\ trace = <<>>

\* The pipeline on the tables of DurationTables.
DurationInit ==
    /\ pc = "parse"
    /\ args \in Arguments
    /\ table \in DurationTables
    /\ files \in Corpora
    /\ mms = <<>>
    /\ gi = 0
    /\ src_action = EmptyAction
    /\ target_frame_count = 0
    /\ samples = <<>>
    /\ inflected = <<>>
    /\ final = EmptyAction
    /\ last_gloss_end = RInt(1)
    /\ mi = 0
    /\ step = NoStep
    /\ fault = ""
    /\ header = NoColumns
    /\ line_data = <<>>
    /\ ik_targets = <<>>
    /\ scene_frame = 1
    /\ loop = NoLoop
    /\ trace = <<>>

DurationSpec == DurationInit /\ [][Next]_vars

ControllerNext ==
    \/ Parse
    \/ FindMocapDataFiles
    \/ LoadGloss
    \/ Resample
    \/ SkipResample
    \/ NewController
    \/ CaptureFrame
    \/ DriveFrame
    \/ LinkTarget
    \/ SetupReturn
    \/ FrameSet
    \/ Inflect
    \/ BakeAction
    \/ CreateNewFcurves
    \/ MergeSkip
    \/ MergeStep
    \/ Finish
    \/ RemoveFile

ControllerSpec == ControllerInit /\ [][ControllerNext]_vars

\* ================================================================ claims
\* Helpers of the claims.
IsCeilOf(n, x) == RLe(x, RInt(n)) /\ RLt(RInt(n - 1), x)
IsFloorOf(n, x) == RLe(RInt(n), x) /\ RLt(x, RInt(n + 1))
FramesOf(x) == RMul(x, RInt(FPS))
Parsed == pc # "parse"
Merged == step.kind \in {"combine", "hold"}
IntFrames(a, b) == {RInt(f) : f \in a..b}
\* The step just taken is an iteration of merge_animation that merged.
MergedNow == step' # step /\ step'.kind \in {"combine", "hold"}
Written(ch) ==
    {x \in DOMAIN final'[ch] :
        x \notin DOMAIN final[ch] \/ final'[ch][x] # final[ch][x]}

\* C1: in absolute-time mode a gloss that is no HOLD, with timing (s, e) and
\* resampled to e - s + 1 samples, is written to the frames s+1..e+1 of the
\* final timeline, with the values of its baked animation, and to no other
\* frame; the glosses timed at seconds 0..1 and 1..2 (both merged, no file
\* removed) end on the frames 1..121, the first on 1..61 and the second on
\* 61..121, sharing frame 61 alone.
C1_Step ==
    (MergedNow /\ step'.kind = "combine" /\ ~args.use_relative_time
       /\ ~args.ignore_gloss_duration)
    => LET line == mms[step'.pos]
           s == timing(line)[1]
           e == timing(line)[2]
           source == inflected[line.idx]
       IN  /\ line.resampled_frame_range = <<1, e - s + 1>>
           /\ \A ch \in Channels :
                /\ Written(ch) \subseteq IntFrames(s + 1, e + 1)
                /\ IntFrames(s + 1, e + 1) \subseteq DOMAIN final'[ch]
                /\ \A f \in (s + 1)..(e + 1) :
                      final'[ch][RInt(f)] = source[ch][f - s]

C1_Example ==
    (table = ExampleTable /\ pc = "done" /\ ~args.use_relative_time
       /\ ~args.ignore_gloss_duration /\ files = Library)
    => \A ch \in Channels :
          /\ DOMAIN final[ch] = IntFrames(1, 121)
          /\ \A f \in 1..60 : final[ch][RInt(f)] = inflected[0][ch][f]
          /\ \A f \in 61..121 : final[ch][RInt(f)] = inflected[1][ch][f - 60]
          /\ IntFrames(1, 61) \cap IntFrames(61, 121) = {RInt(61)}

C1_AbsoluteWindow == [][C1_Step]_vars /\ []C1_Example

C1_Witness ==
    /\ table = ExampleTable
    /\ pc = "done"
    /\ ~args.use_relative_time
    /\ ~args.ignore_gloss_duration
    /\ files = Library
    /\ step.kind = "combine"

\* C2 as stated: every parsed entry whose framestart <= frameend in seconds
\* has a converted start frame <= its converted end frame.
C2_Original ==
    Parsed =>
      \A i \in 1..Len(mms) :
         RLe(mms[i].framestart, mms[i].frameend)
           => timing(mms[i])[1] <= timing(mms[i])[2]

\* C2, amended: every parsed entry whose framestart <= frameend in seconds
\* has a converted start frame <= its converted end frame + 1, and a start
\* frame <= its end frame when frameend - framestart is at least 1/60 s.
C2_StartAtMostEndPlusOne ==
    Parsed =>
      \A i \in 1..Len(mms) :
         RLe(mms[i].framestart, mms[i].frameend)
           => /\ timing(mms[i])[1] <= timing(mms[i])[2] + 1
              /\ RLe(Rat(1, FPS), RSub(mms[i].frameend, mms[i].framestart))
                   => timing(mms[i])[1] <= timing(mms[i])[2]

C2_Witness ==
    /\ Parsed
    /\ \E i \in 1..Len(mms) :
          /\ RLt(mms[i].framestart, mms[i].frameend)
          /\ timing(mms[i])[1] = timing(mms[i])[2] + 1

\* C3: the frames the pipeline uses for a row are ceil(framestart * 60) and
\* floor(frameend * 60): the resampler's target count in absolute time is
\* their difference + 1, and the window merged in absolute time is both + 1,
\* also when the start frame is above the end frame.
C3_CeilFloorTiming ==
    /\ (Merged /\ ~args.use_relative_time)
         => /\ IsInt(step.start) /\ IsInt(step.end)
            /\ IsCeilOf(step.start[1] - 1, FramesOf(mms[step.pos].framestart))
            /\ IsFloorOf(step.end[1] - 1, FramesOf(mms[step.pos].frameend))
    /\ (pc \in {"setup", "host_defined"} /\ ~args.use_relative_time
          /\ ~args.ignore_gloss_duration)
         => LET s == RCeil(FramesOf(mms[gi].framestart))
                e == RFloor(FramesOf(mms[gi].frameend))
            IN  /\ IsCeilOf(s, FramesOf(mms[gi].framestart))
                /\ IsFloorOf(e, FramesOf(mms[gi].frameend))
                /\ target_frame_count = e - s + 1

C3_Witness ==
    /\ Merged
    /\ ~args.use_relative_time
    /\ RLt(step.end, step.start)
    /\ RLe(mms[step.pos].framestart, mms[step.pos].frameend)

\* The rows of the table that are split, with the idx of their first fragment.
RECURSIVE FirstIdx(_)
FirstIdx(r) ==
    IF r = 1 THEN 0
    ELSE LET cell == table[r - 1].cell
         IN  FirstIdx(r - 1)
               + (IF cell.prefix # "" /\ cell.prefix # "signs"
                  THEN Len(cell.parts) ELSE 1)
CompoundRows ==
    {r \in 1..Len(table) :
        /\ table[r].cell.prefix \notin {"", "signs"}
        /\ Len(table[r].cell.parts) > 1}
EntryOf(i) == mms[CHOOSE p \in 1..Len(mms) : mms[p].idx = i]
Fragment(r, i) == EntryOf(FirstIdx(r) + i)

\* C4 as stated: the windows [framestart_i, frameend_i) of the N fragments of
\* a compound row with window [S, E) follow each other from S to E without
\* gap or overlap, and every fragment's transition is below its window's
\* length.
C4_Original ==
    Parsed =>
      \A r \in CompoundRows :
         LET N == Len(table[r].cell.parts)
         IN  /\ Fragment(r, 0).framestart = table[r].framestart
             /\ Fragment(r, N - 1).frameend = table[r].frameend
             /\ \A i \in 0..(N - 2) :
                   Fragment(r, i).frameend = Fragment(r, i + 1).framestart
             /\ \A i \in 0..(N - 1) :
                   RLt(Fragment(r, i).transition,
                       RSub(Fragment(r, i).frameend, Fragment(r, i).framestart))

\* C4, amended: with delta = (E - S) / N, fragment i starts at S + i * delta
\* and ends at S + (i + 1) * delta - 0.3 * delta; so the slices
\* [S + i * delta, S + (i + 1) * delta) partition [S, E), each window is the
\* first 70% of its slice, a window and its 0.3 * delta tail reach the next
\* window's start (the last one's reach E); every fragment but the last has
\* the transition 0.3 * delta, which is below the window's and the slice's
\* length when E > S, and the last has the row's own transition, whatever
\* its value.
C4_SlicesPartition ==
    Parsed =>
      \A r \in CompoundRows :
         LET N == Len(table[r].cell.parts)
             S == table[r].framestart
             E == table[r].frameend
             tail(i) == RSub(RAdd(S, RDiv(RMul(RSub(E, S), RInt(i + 1)), RInt(N))),
                             Fragment(r, i).frameend)
         IN  /\ Fragment(r, 0).framestart = S
             /\ RAdd(Fragment(r, N - 1).frameend, tail(N - 1)) = E
             /\ \A i \in 0..(N - 1) :
                   /\ RMul(RInt(N), RSub(Fragment(r, i).framestart, S))
                        = RMul(RInt(i), RSub(E, S))
                   /\ RMul(RInt(ScaleDen * N), tail(i))
                        = RMul(RInt(ScaleNum), RSub(E, S))
             /\ \A i \in 0..(N - 2) :
                   /\ RAdd(Fragment(r, i).frameend, tail(i))
                        = Fragment(r, i + 1).framestart
                   /\ Fragment(r, i).transition = tail(i)
                   /\ RLt(S, E) =>
                        RLt(Fragment(r, i).transition,
                            RSub(Fragment(r, i).frameend,
                                 Fragment(r, i).framestart))
             /\ Fragment(r, N - 1).transition = table[r].transition

C4_Witness ==
    /\ Parsed
    /\ \E r \in CompoundRows :
          /\ Len(table[r].cell.parts) = 3
          /\ RLt(Fragment(r, 0).frameend, Fragment(r, 1).framestart)
          /\ RLt(Fragment(r, 2).frameend, table[r].frameend)

\* The gloss at gi was resampled by the step before: the source armature
\* holds the sampled action, and the motion file holds the action it had.
Resampled == pc = "setup" /\ ~args.ignore_gloss_duration
Original == LibraryAction(mms[gi].path)

\* C5: resample, on a source on the frames [f0, f1] and with a target count
\* T >= 2, takes T samples, sample i (from 0) at f0 + i * (f1 - f0) / (T - 1),
\* the first at f0 and the last at f1, and writes the value of every source
\* channel at sample i as keyframe i + 1: the new action is on the frames 1..T.
C5_UniformSamples ==
    Resampled =>
      LET T == target_frame_count
          f0 == mms[gi].original_frame_range[1]
          f1 == mms[gi].original_frame_range[2]
      IN  /\ T >= 2
          /\ <<f0, f1>> = frame_range(Original)
          /\ Len(samples) = T
          /\ samples[1] = RInt(f0)
          /\ samples[T] = RInt(f1)
          /\ \A i \in 0..(T - 1) :
                RMul(RInt(T - 1), RSub(samples[i + 1], RInt(f0)))
                  = RInt(i * (f1 - f0))
          /\ \A ch \in Channels :
                /\ DOMAIN src_action[ch] = 1..T
                /\ src_action[ch][1] = Original[ch][f0]
                /\ src_action[ch][T] = Original[ch][f1]
                /\ \A i \in 0..(T - 1) :
                      src_action[ch][i + 1] = evaluate(Original[ch], samples[i + 1])

C5_Witness ==
    /\ Resampled
    /\ target_frame_count >= 3
    /\ ~IsInt(samples[2])

\* C6: the target count of a resample call is end - start + 1 of the row's
\* frame window in absolute time; in relative time it is the least integer
\* >= ratio * (f1 - f0) + 1 for a duration NN% (ratio = NN / 100, [f0, f1]
\* the source's frame range), and the frame count the row's duration gives
\* (ceil(seconds * 60)) otherwise.
C6_TargetFrameCount ==
    ((pc \in {"setup", "host_defined"} \/ fault = "ZeroDivisionError")
       /\ ~args.ignore_gloss_duration)
    => LET line == mms[gi]
           T == target_frame_count
           f0 == frame_range(Original)[1]
           f1 == frame_range(Original)[2]
       IN  IF ~args.use_relative_time
           THEN T = RFloor(FramesOf(line.frameend))
                      - RCeil(FramesOf(line.framestart)) + 1
           ELSE IF line.duration.pct
           THEN IsCeilOf(T, RAdd(RMul(Rat(line.duration.num[1], 100 * line.duration.num[2]),
                                      RInt(f1 - f0)),
                                 RInt(1)))
           ELSE IsCeilOf(T, FramesOf(line.duration.num))

C6_Witness ==
    /\ Resampled
    /\ args.use_relative_time
    /\ mms[gi].duration.pct
    /\ target_frame_count = 3
    /\ frame_range(Original) = <<3, 6>>

\* C7: resampling an action on the frames [f0, f1] to f1 - f0 + 1 samples
\* takes the samples at the frames f0..f1, and keyframe i + 1 of every
\* channel has the source's value at frame f0 + i.
C7_OwnCountReproduces ==
    (Resampled
       /\ target_frame_count
            = frame_range(Original)[2] - frame_range(Original)[1] + 1)
    => LET f0 == frame_range(Original)[1]
           T == target_frame_count
       IN  /\ \A i \in 0..(T - 1) : samples[i + 1] = RInt(f0 + i)
           /\ \A ch \in Channels :
                 /\ DOMAIN src_action[ch] = 1..T
                 /\ \A i \in 0..(T - 1) :
                       src_action[ch][i + 1] = Original[ch][f0 + i]

C7_Witness ==
    /\ Resampled
    /\ target_frame_count
         = frame_range(Original)[2] - frame_range(Original)[1] + 1
    /\ target_frame_count >= 4

\* C8: combine_animation(target, source, start) puts, for every channel and
\* every source keyframe (k, v), the keyframe (k + start - 1, v) into the
\* target, changes no other frame of the target, and returns
\* start + the source's last frame.
C8_Step ==
    (MergedNow /\ step'.kind = "combine")
    => LET source == inflected[step'.source]
           start == step'.start
           moved(ch) == {RAdd(RInt(k), RSub(start, RInt(1))) : k \in DOMAIN source[ch]}
       IN  /\ \A ch \in Channels :
                /\ \A k \in DOMAIN source[ch] :
                      LET x == RAdd(RInt(k), RSub(start, RInt(1)))
                      IN  x \in DOMAIN final'[ch] /\ final'[ch][x] = source[ch][k]
                /\ DOMAIN final'[ch] = DOMAIN final[ch] \cup moved(ch)
                /\ Written(ch) \subseteq moved(ch)
           /\ step'.end_frame
                = RAdd(start, RInt(SetMax(Frames(source))))

C8_CombineCopies == [][C8_Step]_vars

C8_Witness ==
    /\ step.kind = "combine"
    /\ step.pos >= 2
    /\ ~IsInt(step.start)
    /\ step.end_frame = RAdd(step.start, RInt(frame_range(inflected[step.source])[2]))

\* C9: perform_hold(target, source, start, end) puts, for every channel, a
\* keyframe at start and a keyframe at end into the target, both with the
\* value of the source channel's last keyframe, and changes no other frame.
C9_Step ==
    (MergedNow /\ step'.kind = "hold")
    => LET source == inflected[step'.source]
           start == step'.start
           end == step'.end
       IN  /\ \A ch \in Channels :
                LET last == source[ch][SetMax(DOMAIN source[ch])]
                IN  /\ DOMAIN final'[ch] = DOMAIN final[ch] \cup {start, end}
                    /\ Written(ch) \subseteq {start, end}
                    /\ final'[ch][start] = last
                    /\ final'[ch][end] = last
           /\ step'.end_frame = end

C9_HoldFreezes == [][C9_Step]_vars

C9_Witness ==
    /\ step.kind = "hold"
    /\ step.start # step.end
    /\ \A ch \in Channels :
          /\ final[ch][step.start] = final[ch][step.end]
          /\ inflected[step.source][ch][1]
               # inflected[step.source][ch][SetMax(DOMAIN inflected[step.source][ch])]

\* C10: after a merge step whose returned end differs from the expected end
\* by more than 1 the run is aborted by the assertion, and by no other merge
\* step; the cursor is the expected end in both cases, and once aborted
\* nothing is merged or changed any more.
Mismatch(end, end_frame) ==
    \/ RLt(RInt(1), RSub(end_frame, end))
    \/ RLt(RInt(1), RSub(end, end_frame))

C10_Step ==
    /\ MergedNow
         => /\ last_gloss_end' = step'.end
            /\ IF Mismatch(step'.end, step'.end_frame)
               THEN pc' = "aborted" /\ fault' = "AssertionError: end" /\ mi' = mi
               ELSE pc' = "merge" /\ fault' = "" /\ mi' = mi + 1
    /\ pc = "aborted"
         => /\ final' = final
            /\ last_gloss_end' = last_gloss_end
            /\ mi' = mi
            /\ step' = step
            /\ pc' = "aborted"

C10_MismatchAborts == [][C10_Step]_vars

C10_Witness ==
    /\ pc = "aborted"
    /\ fault = "AssertionError: end"
    /\ Mismatch(step.end, step.end_frame)
    /\ step.pos < Len(mms)
    /\ last_gloss_end = step.end

\* The last frame of an action whose frames are rationals, and the largest
\* of a set of rationals.
RMaxOf(S) == CHOOSE x \in S : \A y \in S : RLe(y, x)
LastFrame(action) == RMaxOf(Frames(action))
\* The last frame of the baked animation of the gloss at position p: its
\* length in frames when the gloss was resampled (its frames are 1..L).
BakedLength(p) == frame_range(inflected[mms[p].idx])[2]
BakedSpan(p) ==
    frame_range(inflected[mms[p].idx])[2] - frame_range(inflected[mms[p].idx])[1]
RECURSIVE SumBakedLength(_)
SumBakedLength(p) == IF p = 0 THEN 0 ELSE SumBakedLength(p - 1) + BakedLength(p)
RECURSIVE SumBakedSpan(_)
SumBakedSpan(p) == IF p = 0 THEN 0 ELSE SumBakedSpan(p - 1) + BakedSpan(p)
NoHold == \A p \in 1..Len(mms) : mms[p].datatype # "HOLD"
\* Every gloss was merged in absolute time, resampled, and none was skipped.
AbsoluteDone ==
    /\ pc = "done"
    /\ ~args.use_relative_time
    /\ ~args.ignore_gloss_duration
    /\ files = Library
    /\ NoHold
\* The first gloss starts on frame 0 and every other one on the frame its
\* predecessor ends on.
BackToBack ==
    /\ timing(mms[1])[1] = 0
    /\ \A p \in 1..(Len(mms) - 1) : timing(mms[p + 1])[1] = timing(mms[p])[2]

\* C11 as stated: after n glosses with the baked lengths L1..Ln were merged
\* in absolute time, the last frame of the final timeline is sum(Li) + n,
\* give or take n frames (Li read as the frame count or as the frame span of
\* the baked animation).
C11_Original ==
    AbsoluteDone =>
      LET n == Len(mms)
          last == LastFrame(final)
          within(x) == RLe(RInt(x - n), last) /\ RLe(last, RInt(x + n))
      IN  within(SumBakedLength(n) + n) \/ within(SumBakedSpan(n) + n)

\* C11, amended: in absolute time a merge step of a gloss with start frame s
\* and a baked animation whose last frame is L writes its last keyframe on
\* the frame s + L and returns s + L + 1 (a HOLD writes the frames s + 1 and
\* e + 1), so the last frame of the final timeline is the largest such frame
\* of the glosses merged so far; when the first gloss starts on frame 0 and
\* every other gloss on the frame its predecessor ends on, the last frame
\* after n glosses is sum(Li) - n + 1.
C11_Step ==
    (MergedNow /\ ~args.use_relative_time)
    => LET line == mms[step'.pos]
           s == timing(line)[1]
           e == timing(line)[2]
           L == frame_range(inflected[step'.source])[2]
           before == IF Frames(final) = {} THEN {} ELSE {LastFrame(final)}
           wrote == IF step'.kind = "combine" THEN {RInt(s + L)}
                    ELSE {RInt(s + 1), RInt(e + 1)}
       IN  /\ LastFrame(final') = RMaxOf(before \cup wrote)
           /\ step'.kind = "combine" => step'.end_frame = RInt(s + L + 1)

C11_Chain ==
    (AbsoluteDone /\ BackToBack)
    => LastFrame(final) = RInt(SumBakedLength(Len(mms)) - Len(mms) + 1)

C11_LastFrameIsLargestEnd == [][C11_Step]_vars /\ []C11_Chain

C11_Witness ==
    /\ AbsoluteDone
    /\ BackToBack
    /\ Len(mms) = 2
    /\ BakedLength(1) > 1
    /\ LastFrame(final) = RInt(BakedLength(1) + BakedLength(2) - 1)

\* C12: in relative time every merged gloss starts at the expected end of the
\* gloss merged before it (1 when none was) plus ceil(transition * 60), and
\* ends at its start plus its duration: ceil(seconds * 60) frames, or for
\* NN% the ratio NN / 100 of (last frame - first frame) of the action its
\* motion file holds, before resampling. The expected end is kept for the
\* next gloss: it is 1 when the merge begins and no other step changes it.
C12_Step ==
    /\ (MergedNow /\ args.use_relative_time)
         => LET line == mms[step'.pos]
                f0 == frame_range(LibraryAction(line.path))[1]
                f1 == frame_range(LibraryAction(line.path))[2]
                tr == RCeil(FramesOf(line.transition))
                resolved ==
                    IF line.duration.pct
                    THEN Rat(line.duration.num[1] * (f1 - f0),
                             line.duration.num[2] * 100)
                    ELSE RInt(RCeil(FramesOf(line.duration.num)))
            IN  /\ step'.start = RAdd(last_gloss_end, RInt(tr))
                /\ step'.end = RAdd(step'.start, resolved)
                /\ last_gloss_end' = step'.end
    /\ (pc = "load" /\ pc' = "merge") => last_gloss_end' = RInt(1)
    /\ (pc = "merge" /\ ~MergedNow) => last_gloss_end' = last_gloss_end

C12_RelativeWindow == [][C12_Step]_vars

C12_Witness ==
    /\ args.use_relative_time
    /\ pc = "merge"
    /\ step.kind = "hold"
    /\ step.pos = 2
    /\ mms[2].duration.pct
    /\ step.start = RInt(7)
    /\ step.end = Rat(41, 5)
    /\ last_gloss_end = step.end

\* C13: when merge_animation merges a HOLD, the source of perform_hold is the
\* baked animation of the gloss right before the HOLD in the merge order (the
\* table sorted by start frame), also when the sort moved entries.
C13_HoldSourceIsPredecessor ==
    (Merged /\ step.kind = "hold")
    => /\ step.pos >= 2
       /\ step.source = mms[step.pos - 1].idx

\* The resolution pass has run to its end.
Resolved ==
    /\ pc \notin {"parse", "resolve"}
    /\ fault \notin {"UnboundLocalError",
                     "Exception: motion capture file not present"}

\* C14: once find_mocap_data_files has run to its end, every entry named
\* <HOLD> has the datatype HOLD and the path its predecessor in the sorted
\* table was resolved to, a motion file of the corpus, wherever the HOLD is
\* in the table (a pass over a table whose first entry is a HOLD does not run
\* to its end); after the parse and before the pass no entry has a path and
\* no entry is tagged HOLD.
C14_HoldPathFromPredecessor ==
    /\ Resolved
         => \A p \in 1..Len(mms) :
               mms[p].name = HoldName
                 => /\ mms[p].datatype = "HOLD"
                    /\ p >= 2
                    /\ mms[p].path = mms[p - 1].path
                    /\ mms[p].path \in Library
    /\ pc = "resolve"
         => \A p \in 1..Len(mms) :
               /\ mms[p].path = NonePath
               /\ mms[p].datatype # "HOLD"

C14_Witness ==
    /\ Resolved
    /\ Len(mms) = 2
    /\ mms[2].name = HoldName
    /\ mms[2].idx = 0
    /\ mms[2].datatype = "HOLD"
    /\ mms[2].path = SignsB
    /\ mms[1].path = SignsB

\* ------------------------------------------------ claims on the controller
\* Helpers: the cells of the row of the gloss at gi, the calls of the trace.
Cells == line_data[mms[gi].idx]
Called(op, t) == \E i \in DOMAIN trace : trace[i].op = op /\ trace[i].target = t
LastOp == IF trace = <<>> THEN "" ELSE trace[Len(trace)].op
\* The run was ended by init_from_mms, or by inflect.
LinkAborted == pc = "aborted" /\ fault \in {"KeyError", "TypeError"} /\ LastOp = "init"
InflectAborted == pc = "aborted" /\ fault = "TypeError" /\ LastOp = "inflect"
\* init_from_mms of target t was called and has returned.
InController == pc \in {"link", "inflect"} \/ LinkAborted \/ InflectAborted
Initialised(t) ==
    /\ InController
    /\ Called("init", t)
    /\ ~(LinkAborted /\ loop.target = t)
HasColumns(key) == ColumnsOf({key}) \subseteq header
Populated(key) == \A a \in Axes : Cells[<<key[1], key[2], a>>] # None
Unpopulated(key) == \A a \in Axes : Cells[<<key[1], key[2], a>>] = None
PartlyPopulated(key) == ~Populated(key) /\ ~Unpopulated(key)
Vector(key) ==
    IF Populated(key)
    THEN <<Cells[<<key[1], key[2], "x">>][1], Cells[<<key[1], key[2], "y">>][1],
           Cells[<<key[1], key[2], "z">>][1]>>
    ELSE None

\* C15 as stated: a row in which one or two of x/y/z of a 3-component
\* parameter are populated is rejected with an error: once a target has read
\* such a parameter the run is aborted.
C15_Original ==
    \A t \in 1..(IF InController THEN Len(ik_targets) ELSE 0) :
       (InController /\ Called("init", t)
          /\ \E key \in Reads(ik_targets[t]) :
                HasColumns(key) /\ PartlyPopulated(key))
       => pc = "aborted"

\* C15, amended: a 3-component parameter is read as its three values when x,
\* y and z are all populated and as absent (None) when any of them is empty:
\* a row with one or two of them populated is taken as absent and raises no
\* parse error. The deltas a target sets are these vectors, and the only
\* errors of init_from_mms are the KeyError of a column the header lacks
\* and the TypeError of a TrajectoryTarget whose rotation or scale is absent.
C15_PartialIsAbsent ==
    \A t \in 1..(IF InController THEN Len(ik_targets) ELSE 0) :
       LET tgt == ik_targets[t]
           dom == tgt.dominance
       IN  /\ Initialised(t)
                => CASE tgt.target = "LocalRotationTarget" ->
                          tgt.delta_o = Vector(<<dom, "handrot">>)
                     [] tgt.target = "HeadRotTarget" ->
                          tgt.delta_o = Vector(<<"", "headrot">>)
                     [] tgt.target = "TrajectoryTarget" ->
                          /\ tgt.delta_t = Vector(<<dom, "handreloc">>)
                          /\ tgt.delta_r = <<Vector(<<dom, "handreloca">>),
                                             Vector(<<dom, "handrelocs">>)>>
                          /\ Populated(<<dom, "handreloca">>)
                          /\ Populated(<<dom, "handrelocs">>)
                     [] OTHER ->
                          IF tgt.itype = "torso"
                          THEN /\ tgt.delta_t = Vector(<<"", "torsoreloc">>)
                               /\ tgt.delta_o = Vector(<<"", "torsoreloca">>)
                          ELSE tgt.delta_t = Vector(<<dom, "shoulderreloc">>)
           /\ (LinkAborted /\ loop.target = t)
                => \/ fault = "KeyError"
                        /\ \E key \in Reads(tgt) : ~HasColumns(key)
                   \/ /\ fault = "TypeError"
                      /\ tgt.target = "TrajectoryTarget"
                      /\ \/ ~Populated(<<dom, "handreloca">>)
                         \/ ~Populated(<<dom, "handrelocs">>)

C15_Witness ==
    /\ pc = "inflect"
    /\ Len(ik_targets) = 1
    /\ ik_targets[1].target = "LocalRotationTarget"
    /\ Initialised(1)
    /\ PartlyPopulated(<<"dom", "handrot">>)
    /\ ik_targets[1].delta_o = None

\* Every parameter the target reads has its columns, and all are empty.
Absent(tgt) == \A key \in Reads(tgt) : HasColumns(key) /\ Unpopulated(key)
\* The gloss before gi has just been baked; its source action is still loaded.
JustBaked == pc = "load" /\ gi > 1 /\ LastOp = "bake"

\* C16: a target whose parameters are all absent from the row gets through
\* init_from_mms and every inflect(frame) without an exception, its deltas
\* are the identity (None, for the delta LocalRotationTarget tests before it
\* uses it), and when this is so for every target of the gloss the baked
\* animation is the captured baseline.
C16_AbsentIsIdentity ==
    /\ InController
         => \A t \in 1..Len(ik_targets) :
               LET tgt == ik_targets[t]
               IN  Absent(tgt)
                     => /\ ~((LinkAborted \/ InflectAborted) /\ loop.target = t)
                        /\ Initialised(t)
                             => /\ tgt.delta_t = IdentityT
                                /\ tgt.delta_r = IdentityR
                                /\ IF tgt.target = "LocalRotationTarget"
                                   THEN tgt.delta_o \in {None, IdentityO}
                                   ELSE tgt.delta_o = IdentityO
    /\ (JustBaked /\ line_data[mms[gi - 1].idx] = EmptyCells(header))
         => inflected[mms[gi - 1].idx] = Capture(src_action)

\* C17: an inflector is on the list of active targets only if the header has
\* the columns of its category, and is left out without an error otherwise,
\* so that every active target finds every column it reads.
C17_ActiveTargetsHaveColumns ==
    InController
      => /\ \A t \in 1..Len(ik_targets) :
               ColumnsOf(Reads(ik_targets[t])) \subseteq header
         /\ fault # "KeyError"

\* The controller of a gloss is at work, or has just returned after the bake:
\* the trace is the one of the gloss whose source action is loaded.
Following == pc \in {"capture", "drive"} \/ InController \/ JustBaked
\* The frames of the loaded source action's range.
SourceFrames == frame_range(src_action)[1]..frame_range(src_action)[2]
At(op, frame, t, i) ==
    /\ i \in DOMAIN trace
    /\ trace[i].op = op /\ trace[i].frame = frame /\ trace[i].target = t
Before(op, frame, t, i) == \E j \in 1..(i - 1) : At(op, frame, t, j)
TargetIds == 1..Len(ik_targets)
TrajectoryIds == {t \in TargetIds : IsTrajectory(ik_targets[t])}
Count(op) == Cardinality({i \in DOMAIN trace : trace[i].op = op})

\* C18: for a gloss processed with inflection the controller's steps come in
\* the order capture, drive, link, inflect, bake: a drive keyframe is written
\* only after every frame of the source range was captured, a constraint is
\* attached only after the drive keyframes of every frame, inflect is called
\* only after every target was linked and its deltas were computed, and the
\* bake runs once, after the inflect of every frame and target, as the last
\* step.
C18_ControllerOrder ==
    /\ (pc = "load" /\ gi > 1 /\ ~args.without_inflection) => LastOp = "bake"
    /\ (Following /\ ~args.without_inflection)
      => /\ \A i \in DOMAIN trace :
              /\ trace[i].op = "drive"
                   => \A f \in SourceFrames : Before("capture", f, 0, i)
              /\ trace[i].op = "link"
                   => /\ \A f \in SourceFrames : Before("capture", f, 0, i)
                      /\ \A f \in SourceFrames : \A t \in TrajectoryIds :
                            Before("drive", f, t, i)
              /\ trace[i].op = "inflect"
                   => \A t \in TargetIds :
                         Before("link", 0, t, i) /\ Before("init", 0, t, i)
              /\ trace[i].op = "bake"
                   => /\ i = Len(trace)
                      /\ \A f \in SourceFrames : \A t \in TargetIds :
                            Before("inflect", f, t, i)
         /\ Count("bake") <= 1

\* A gloss with several targets, two of them with a trajectory controller,
\* has gone through all five steps.
C18_Witness ==
    /\ JustBaked
    /\ ~args.without_inflection
    /\ Cardinality(TrajectoryIds) >= 2
    /\ Cardinality(TargetIds) > Cardinality(TrajectoryIds)
    /\ Count("drive") > 0 /\ Count("inflect") > 0

\* C19: without inflection the capture loop still keys every frame of the
\* gloss's range into inflected_<idx>_<name>, so that the baseline is there
\* when setup_chain returns; no init_from_mms, inflect or bake is ever called;
\* nothing but the capture loop writes the inflected action; and the merge
\* copies the keyframes of that baseline as they are.
C19_Step ==
    args.without_inflection
      => /\ \A i \in DOMAIN trace' :
               trace'[i].op \notin {"init", "inflect", "bake"}
         /\ pc' # "inflect"
         /\ (pc = "link" /\ pc' = "load")
              => inflected'[mms[gi].idx] = Capture(src_action)
         /\ pc # "capture"
              => \A idx \in DOMAIN inflected :
                    inflected[idx] # EmptyAction
                      => idx \in DOMAIN inflected'
                           /\ inflected'[idx] = inflected[idx]
         /\ (pc = "merge" /\ mi' = mi + 1 /\ step'.kind = "combine")
              => \A ch \in Channels :
                    \A k \in DOMAIN inflected[step'.source][ch] :
                       final'[ch][RAdd(RInt(k), RSub(step'.start, RInt(1)))]
                         = inflected[step'.source][ch][k]
C19_WithoutInflection == [][C19_Step]_vars

\* Without inflection a gloss was captured and its baseline has been merged.
C19_Witness ==
    /\ args.without_inflection
    /\ pc = "merge"
    /\ step.kind = "combine"
    /\ Count("capture") >= 2
    /\ inflected[step.source] # EmptyAction

\* The calls of Controller.execute in the trace: what follows the last call
\* of setup_chain's loop over the targets, the bake left out.
InExecute == (pc = "inflect" \/ InflectAborted \/ JustBaked) /\ ik_targets # <<>>
SetupEnd == SetMax({i \in DOMAIN trace : trace[i].op \in {"link", "init"}})
ExecuteCalls ==
    SelectSeq(SubSeq(trace, SetupEnd + 1, Len(trace)), LAMBDA e : e.op # "bake")
\* The action Controller.execute goes over.
ExecuteRange ==
    frame_range(inflected[mms[IF JustBaked THEN gi - 1 ELSE gi].idx])

\* C20: Controller.execute visits the frames start..stop in ascending order,
\* each once: it sets the host's current frame to the frame, then calls
\* inflect(frame) of every target in turn, the host's current frame being
\* that frame at each call, and only then goes on to the next frame.
C20_InflectAtCurrentFrame ==
    InExecute
      => LET n == Len(ik_targets)
             start == ExecuteRange[1]
             stop == ExecuteRange[2]
         IN  /\ \A k \in DOMAIN ExecuteCalls :
                   LET e == ExecuteCalls[k]
                       frame == start + ((k - 1) \div (n + 1))
                       r == (k - 1) % (n + 1)
                   IN  /\ e.frame = frame
                       /\ e.at = frame
                       /\ frame <= stop
                       /\ IF r = 0 THEN e.op = "frame_set"
                          ELSE e.op = "inflect" /\ e.target = r
             /\ JustBaked => Len(ExecuteCalls) = (stop - start + 1) * (n + 1)

\* Several targets were inflected on every frame of a gloss.
C20_Witness ==
    /\ JustBaked
    /\ Len(ik_targets) >= 2
    /\ Count("inflect") >= 2 * Len(ik_targets)

\* add_constraints of target t was called and has returned.
Linked(t) == (InController \/ JustBaked) /\ Called("link", t)

AssetPath(line) == [dir |-> line.datatype, file |-> line.name]
\* Some gloss of the parsed table that is no HOLD has no motion file.
AssetMissing ==
    \E p \in DOMAIN mms : mms[p].name # HoldName /\ AssetPath(mms[p]) \notin files
NothingProduced ==
    /\ inflected = <<>>
    /\ src_action = EmptyAction
    /\ samples = <<>>
    /\ final = EmptyAction

\* C22: when the motion file of some gloss that is no HOLD is missing at the
\* time the paths are resolved, find_mocap_data_files raises and the run
\* ends there: no gloss was loaded, resampled, baked or merged, and nothing
\* happens after the failure.
C22_Step ==
    /\ (pc = "resolve" /\ AssetMissing)
         => /\ pc' = "aborted"
            /\ fault' # ""
            /\ NothingProduced'
    /\ pc = "aborted" => pc' = "aborted" /\ UNCHANGED <<inflected, final>>
C22_MissingAssetAborts == [][C22_Step]_vars

\* The run was ended by the missing file of a gloss that is not the first.
C22_Witness ==
    /\ pc = "aborted"
    /\ fault = "Exception: motion capture file not present"
    /\ Len(mms) >= 2
    /\ AssetPath(mms[1]) \in files
    /\ NothingProduced

\* The number of entries row r of the table is parsed into.
EntriesOf(r) ==
    IF table[r].cell.prefix \notin {"", "signs"}
    THEN Len(table[r].cell.parts) ELSE 1

\* C23: the entries parse returns are in non-decreasing order of their start
\* frame; their indices are the numbers 0..n-1, each once; row r has the
\* indices that follow those of the rows above it, one per sub-gloss, whatever
\* place the sort gave its entries.
C23_SortedNotReindexed ==
    Parsed
      => LET n == Len(mms)
         IN  /\ \A p \in 1..n : \A q \in p..n :
                   timing(mms[p])[1] <= timing(mms[q])[1]
             /\ n = FirstIdx(Len(table) + 1)
             /\ {mms[p].idx : p \in 1..n} = 0..(n - 1)
             /\ \A r \in 1..Len(table) : \A i \in 0..(EntriesOf(r) - 1) :
                   LET entry == Fragment(r, i)
                   IN  /\ entry.name = (IF EntriesOf(r) > 1
                                        THEN <<table[r].cell.parts[i + 1]>>
                                        ELSE table[r].cell.parts)
                       /\ i = 0 => entry.framestart = table[r].framestart

\* The sort has moved the entries of a compound row in front of the entry of
\* the row above it.
C23_Witness ==
    /\ Parsed
    /\ CompoundRows # {}
    /\ \E p \in 1..Len(mms) : mms[p].idx > p - 1
    /\ \E p \in 1..Len(mms) : mms[p].idx < p - 1

\* C24: duration returns (NN / 100, True) for a cell NN% and the ratio is
\* within 0..1, and (the frame count, False) for any other cell; the resampler
\* is never called with a ratio outside 0..1.
C24_DurationRatioInRange ==
    /\ Parsed
         => \A p \in 1..Len(mms) :
               LET cell == mms[p].duration
                   d == duration(mms[p])
               IN  IF cell.pct
                   THEN /\ d = <<RDiv(cell.num, RInt(100)), TRUE>>
                        /\ RLe(RInt(0), d[1]) /\ RLe(d[1], RInt(1))
                   ELSE d = <<RInt(RCeil(FramesOf(cell.num))), FALSE>>
    /\ (pc = "resample" /\ ~args.ignore_gloss_duration /\ args.use_relative_time
          /\ duration(mms[gi])[2])
         => RLe(RInt(0), duration(mms[gi])[1]) /\ RLe(duration(mms[gi])[1], RInt(1))

\* Faults raised by merge_animation.
MergeFaults ==
    {"AssertionError: ratio", "TypeError: original_frame_range is None",
     "AssertionError: end"}
\* The original length, in frames, of the gloss at position p.
OriginalSpan(p) == LibraryRange(mms[p].path)[2] - LibraryRange(mms[p].path)[1]

\* C25: with --use-relative-time and --ignore-gloss-duration no gloss is
\* resampled, merge_animation raises nothing, and every merged gloss has the
\* window of its original length, as with a duration of 100 %, whatever its
\* duration cell is.
C25_IgnoreDurationIsFullLength ==
    (args.use_relative_time /\ args.ignore_gloss_duration)
      => /\ target_frame_count = 0 /\ samples = <<>>
         /\ fault \notin MergeFaults
         /\ (step.kind = "combine")
              => RSub(step.end, step.start) = RInt(OriginalSpan(step.pos))

\* merge_animation is at a gloss whose path no longer exists.
AtStaleGloss == pc = "merge" /\ mi <= Len(mms) /\ mms[mi].path \notin files

\* C26: when merge_animation comes to a gloss whose path no longer exists it
\* goes on to the next gloss: the final timeline and the end of the previous
\* gloss stay as they are and nothing is raised.
C26_Step ==
    (AtStaleGloss /\ files' = files)
      => /\ final' = final
         /\ last_gloss_end' = last_gloss_end
         /\ pc' = "merge" /\ fault' = ""
         /\ mi' = mi + 1
C26_StaleGlossSkipped == [][C26_Step]_vars

\* In relative time the first gloss was skipped and the second was merged
\* from where the timeline starts.
C26_Witness ==
    /\ args.use_relative_time
    /\ pc = "merge"
    /\ step.kind = "combine" /\ step.pos = 2
    /\ mms[1].path \notin files
    /\ step.start = RAdd(RInt(1), RInt(transition(mms[2])))

\* execute_pipeline is about to call ArmatureOperator.resample for gloss gi.
ResampleCalled == pc = "resample" /\ ~args.ignore_gloss_duration

\* C27: every call of resample that execute_pipeline makes, in absolute and
\* in relative time and whatever the row's timing and duration are, is for a
\* target frame count of at least 2.
C27_ResampleCountAtLeastTwo ==
    ResampleCalled
      => TargetFrameCount(mms[gi], src_action, args.use_relative_time) >= 2

\* C28: in absolute time, every gloss being resampled, combine_animation
\* returns for a gloss with timing (s, e) the frame e + 2, one more than the
\* expected end e + 1, so that the assertion after the merge never fails.
C28_AbsoluteEndPlusOne ==
    (~args.use_relative_time /\ ~args.ignore_gloss_duration)
      => /\ fault # "AssertionError: end"
         /\ step.kind = "combine"
              => LET s == timing(mms[step.pos])[1]
                     e == timing(mms[step.pos])[2]
                 IN  /\ s < e
                     /\ step.end = RInt(e + 1)
                     /\ step.end_frame = RInt(e + 2)

\* A gloss that was resampled and baked with its inflection was merged in
\* absolute time.
C28_Witness ==
    /\ ~args.use_relative_time /\ ~args.ignore_gloss_duration
    /\ ~args.without_inflection
    /\ step.kind = "combine"
    /\ mms[step.pos].infl # 0
    /\ mms[step.pos].resampled_frame_range # NoRange

\* C29: in relative time, for a gloss with a ratio r within 0..1 that was
\* resampled to ceil(r * d + 1) samples, d being its original length, the
\* end combine_animation returns is within one frame of the expected end
\* start + r * d, whether r * d is whole or not.
C29_RelativeEndWithinOne ==
    (args.use_relative_time /\ ~args.ignore_gloss_duration
       /\ step.kind = "combine" /\ duration(mms[step.pos])[2]
       /\ RLe(RInt(0), duration(mms[step.pos])[1])
       /\ RLe(duration(mms[step.pos])[1], RInt(1)))
      => /\ step.end = RAdd(step.start,
                            RMul(duration(mms[step.pos])[1],
                                 RInt(OriginalSpan(step.pos))))
         /\ RLe(RSub(step.end, RInt(1)), step.end_frame)
         /\ RLe(step.end_frame, RAdd(step.end, RInt(1)))

\* inflect(f) of target t was called and has returned.
Inflected(f, t) ==
    /\ \E i \in DOMAIN trace : At("inflect", f, t, i)
    /\ ~(InflectAborted /\ loop.frame = f /\ loop.target = t)
\* The targets that inflect the value their controller object has.
RelativeIds ==
    {t \in TargetIds :
        ik_targets[t].target \in {"RelativeLocRotTarget", "HeadRotTarget"}}
Times(n, v) == RInt(n * Shift(v))

\* C30: during Controller.execute the keyframe of the controller object of a
\* RelativeLocRotTarget or HeadRotTarget at a frame f is, once inflect(f) has
\* run, the value the drive loop keyed at f with the target's delta applied
\* once, and until then the value the drive loop keyed: a delta is not carried
\* from one frame to the next.
C30_DeltaAppliedOnce ==
    InExecute
      => \A t \in RelativeIds : \A f \in SourceFrames :
            LET tgt == ik_targets[t]
                keys == tgt.ctrl.keyframes
                baseline == Capture(src_action)
                n == IF Inflected(f, t) THEN 1 ELSE 0
            IN  /\ f \in DOMAIN keys.location
                /\ f \in DOMAIN keys.rotation_quaternion
                /\ keys.rotation_quaternion[f]
                     = RAdd(baseline["rotation_euler"][f], Times(n, tgt.delta_o))
                /\ keys.location[f]
                     = RAdd(baseline["location"][f],
                            IF tgt.target = "HeadRotTarget" THEN RInt(0)
                            ELSE Times(n, tgt.delta_t))

\* A gloss was baked whose torso and head targets have deltas that are not
\* the identity.
C30_Witness ==
    /\ JustBaked
    /\ \E t \in RelativeIds :
          /\ ik_targets[t].target = "RelativeLocRotTarget"
          /\ Shift(ik_targets[t].delta_t) # 0
          /\ Shift(ik_targets[t].delta_o) # 0
    /\ \E t \in RelativeIds :
          /\ ik_targets[t].target = "HeadRotTarget"
          /\ Shift(ik_targets[t].delta_o) # 0

====
